---------------------------- MODULE Spec2Model ----------------------------
(***************************************************************************)
(* Model of the Semantic Versioning Release Action: the name grammar       *)
(* (src/branch.py), the tag classifier and sequencer (src/tags.py), the    *)
(* alias resolver (src/aliases.py) and the event router (src/main.py),     *)
(* run against a repository of tags, branches and commits that stands for  *)
(* the Git-hosting collaborator (src/github_api.py).                       *)
(*                                                                         *)
(* Python strings are sequences of one-character strings, so that          *)
(* formatting (f"{prefix}{major}.{minor}.0-rc{n}") and parsing (the        *)
(* regular expressions, int()) are computed and are not each other's       *)
(* inverse by construction: "v1.02.0" parses to (1, 2, 0) and is not the   *)
(* name the formatter gives (1, 2, 0).  None is the empty tuple, an        *)
(* Optional[int] n is <<n>>, a version is <<major, minor[, patch]>>.       *)
(***************************************************************************)
EXTENDS Integers, Sequences, FiniteSets, TLC

(***************************************************************************)
(* Bounds of the model.                                                    *)
(***************************************************************************)
\* events (handler invocations) in one behaviour
MaxEvents == 4
\* commits in the repository
MaxCommits == 3
\* runs of main() in one behaviour
MaxMainRuns == 2

None == <<>>

(***************************************************************************)
(* Strings: str(int), int(str), startswith.                                *)
(***************************************************************************)
DigitChars == <<"0", "1", "2", "3", "4", "5", "6", "7", "8", "9">>

IsDigit(c) == \E i \in 1..10 : DigitChars[i] = c

DigitVal(c) == (CHOOSE i \in 1..10 : DigitChars[i] = c) - 1

RECURSIVE str(_)
\* str(n) of a non-negative int: decimal, no leading zeros
str(n) == IF n < 10 THEN <<DigitChars[n + 1]>>
          ELSE str(n \div 10) \o <<DigitChars[(n % 10) + 1]>>

RECURSIVE int(_)
\* int(s) of a non-empty string of digits: leading zeros are dropped
int(s) == IF Len(s) = 0 THEN 0
          ELSE 10 * int(SubSeq(s, 1, Len(s) - 1)) + DigitVal(s[Len(s)])

StartsWith(s, p) == Len(p) <= Len(s) /\ SubSeq(s, 1, Len(p)) = p

AllDigits(s) == Len(s) >= 1 /\ \A i \in 1..Len(s) : IsDigit(s[i])

(***************************************************************************)
(* Regular expressions, as far as the program uses them: a pattern is a    *)
(* sequence of tokens, anchored at both ends.  A token is a literal         *)
(* character, one or more digits (in a group or not), or a group holding a *)
(* numeral without leading zeros (0, or a digit from 1 to 9 and then any   *)
(* digits).  ReMatch gives the groups of the match, or None.               *)
(***************************************************************************)
Lit(c) == [kind |-> "lit", c |-> c]
Digits1 == [kind |-> "digits", c |-> ""]
\* one or more digits outside a group
DigitsNoGroup == [kind |-> "nogroup", c |-> ""]
SemVerNum == [kind |-> "num", c |-> ""]

LitSeq(s) == [i \in 1..Len(s) |-> Lit(s[i])]

re_escape(s) == LitSeq(s)

GroupOK(kind, s) ==
    /\ AllDigits(s)
    /\ kind = "num" => (Len(s) = 1 \/ s[1] # "0")

RECURSIVE ReMatches(_, _)
\* every way the pattern matches the whole of s, as the tuple of its groups
ReMatches(pat, s) ==
    IF Len(pat) = 0 THEN (IF Len(s) = 0 THEN {<<>>} ELSE {})
    ELSE LET t == Head(pat) IN
         IF t.kind = "lit"
         THEN IF Len(s) > 0 /\ Head(s) = t.c THEN ReMatches(Tail(pat), Tail(s)) ELSE {}
         ELSE UNION { { (IF t.kind = "nogroup" THEN <<>> ELSE <<SubSeq(s, 1, k)>>) \o r :
                          r \in ReMatches(Tail(pat), SubSeq(s, k + 1, Len(s))) } :
                      k \in { j \in 1..Len(s) : GroupOK(t.kind, SubSeq(s, 1, j)) } }

FirstOrNone(ms) == IF ms = {} THEN None ELSE CHOOSE m \in ms : TRUE

\* pattern.match(s): the groups of the match, None without one (the patterns
\* of the program match in at most one way: a group of digits ends where the
\* digits end or where the rest of the pattern still has to match)
ReMatch(pat, s) == FirstOrNone(ReMatches(pat, s))

\* Python's comparison of tuples of ints
RECURSIVE TupleLess(_, _)
TupleLess(a, b) ==
    IF Len(a) = 0 THEN Len(b) > 0
    ELSE IF Len(b) = 0 THEN FALSE
    ELSE IF Head(a) # Head(b) THEN Head(a) < Head(b)
    ELSE TupleLess(Tail(a), Tail(b))

TupleGE(a, b) == ~TupleLess(a, b)

TupleGT(a, b) == TupleLess(b, a)

(***************************************************************************)
(* The Git-hosting collaborator (src/github_api.py).  The repository's     *)
(* tags are a function from tag name to the commit the tag points at.  A   *)
(* call that GitHub rejects raises: ok is FALSE and nothing changes.       *)
(***************************************************************************)
RECURSIVE SetToSeq(_)
SetToSeq(S) == IF S = {} THEN <<>>
               ELSE LET x == CHOOSE y \in S : TRUE IN <<x>> \o SetToSeq(S \ {x})

\* GitHubAPI.list_tags: the tags as objects with a name and a commit sha
list_tags(tags) ==
    LET names == SetToSeq(DOMAIN tags) IN
    [i \in 1..Len(names) |-> [name |-> names[i], sha |-> tags[names[i]]]]

\* GitHubAPI.tag_exists
tag_exists(tags, tag_name) == tag_name \in DOMAIN tags

\* GitHubAPI.create_tag on a collaborator that lets the last writer win
api_create_tag_overwrite(tags, tag_name, commit_sha) ==
    [ok |-> TRUE, tags |-> (tag_name :> commit_sha) @@ tags]

\* GitHubAPI.create_tag: creating a reference that exists is rejected
api_create_tag(tags, tag_name, commit_sha) ==
    IF tag_name \in DOMAIN tags
    THEN [ok |-> FALSE, tags |-> tags]
    ELSE [ok |-> TRUE, tags |-> (tag_name :> commit_sha) @@ tags]

\* GitHubAPI.update_tag: force-moves a reference, which has to exist
api_update_tag(tags, tag_name, commit_sha) ==
    IF tag_name \in DOMAIN tags
    THEN [ok |-> TRUE, tags |-> [tags EXCEPT ![tag_name] = commit_sha]]
    ELSE [ok |-> FALSE, tags |-> tags]

\* GitHubAPI.get_branch_commits: the shas reachable from the branch's head;
\* a branch that does not exist raises
get_branch_commits(heads, history, branch_name) ==
    IF branch_name \in DOMAIN heads
    THEN [ok |-> TRUE, shas |-> history[heads[branch_name]]]
    ELSE [ok |-> FALSE, shas |-> {}]

(***************************************************************************)
(* Name grammar (src/branch.py).                                           *)
(***************************************************************************)
\* create_branch_pattern with \d+ for its numerals
create_branch_pattern_digits(release_prefix) ==
    re_escape(release_prefix) \o <<Digits1, Lit("."), Digits1>>

create_branch_pattern(release_prefix) ==
    re_escape(release_prefix) \o <<SemVerNum, Lit("."), SemVerNum>>

\* BranchVersion(major=int(match.group(1)), minor=int(match.group(2))) is
\* <<major, minor>>
BranchVersion(match) ==
    IF match = None THEN None ELSE <<int(match[1]), int(match[2])>>

parse_branch(branch_name, release_prefix) ==
    IF Len(branch_name) = 0 THEN None
    ELSE BranchVersion(ReMatch(create_branch_pattern(release_prefix), branch_name))

\* "sub in s" of Python strings
Contains(s, sub) ==
    \E i \in 1..(Len(s) - Len(sub) + 1) : SubSeq(s, i, i + Len(sub) - 1) = sub

INVALID_PREFIX_CHARS ==
    { <<".", ".">>, <<"~">>, <<"^">>, <<":">>, <<"\\">>, <<" ">>, <<"\t">>, <<"\n">>,
      <<"*">>, <<"?">>, <<"[">> }

\* validate_prefix accepting every prefix
validate_prefix_any(prefix) == TRUE

validate_prefix(prefix) ==
    IF Len(prefix) = 0 THEN FALSE
    ELSE \A invalid_char \in INVALID_PREFIX_CHARS : ~Contains(prefix, invalid_char)

\* should_skip_minor_alias that never skips
should_skip_minor_alias_never(release_prefix, tag_prefix) == FALSE

should_skip_minor_alias(release_prefix, tag_prefix) == release_prefix = tag_prefix

(***************************************************************************)
(* Tag classifier and sequencer (src/tags.py).                             *)
(***************************************************************************)
create_rc_pattern(tag_prefix) ==
    re_escape(tag_prefix) \o
    <<Digits1, Lit("."), Digits1, Lit("."),
      Lit("0"), Lit("-"), Lit("r"), Lit("c"), Digits1>>

create_patch_pattern(tag_prefix) ==
    re_escape(tag_prefix) \o <<Digits1, Lit("."), Digits1, Lit("."), Digits1>>

\* the loop body of find_latest_rc and of find_latest_patch comparing the
\* major alone
find_latest_step_any_minor(match, major, minor, highest) ==
    IF match # None
       /\ int(match[1]) = major
       /\ (highest = None \/ int(match[3]) > highest[1])
    THEN <<int(match[3])>>
    ELSE highest

\* the loop's body keeping the number of the last tag of the series listed,
\* not the highest
find_latest_step_last(match, major, minor, highest) ==
    IF match # None /\ int(match[1]) = major /\ int(match[2]) = minor
    THEN <<int(match[3])>>
    ELSE highest

\* the body of the loop of find_latest_rc and of find_latest_patch: the
\* highest number after the tag whose match is given
find_latest_step(match, major, minor, highest) ==
    IF match # None
       /\ int(match[1]) = major /\ int(match[2]) = minor
       /\ (highest = None \/ int(match[3]) > highest[1])
    THEN <<int(match[3])>>
    ELSE highest

RECURSIVE find_latest_loop(_, _, _, _, _, _)
\* the loop of find_latest_rc and of find_latest_patch over listing[i..]
find_latest_loop(listing, i, pattern, major, minor, highest) ==
    IF i > Len(listing) THEN highest
    ELSE find_latest_loop(listing, i + 1, pattern, major, minor,
             find_latest_step(ReMatch(pattern, listing[i].name), major, minor, highest))

find_latest_rc(tags, major, minor, tag_prefix) ==
    find_latest_loop(list_tags(tags), 1, create_rc_pattern(tag_prefix), major, minor, None)

find_latest_patch(tags, major, minor, tag_prefix) ==
    find_latest_loop(list_tags(tags), 1, create_patch_pattern(tag_prefix), major, minor, None)

\* ga_exists taking any GA or patch tag of the series for the GA tag
ga_exists_any_release(tags, major, minor, tag_prefix) ==
    find_latest_patch(tags, major, minor, tag_prefix) # None

\* ga_exists answering that the GA tag exists, whatever the tags are
ga_exists_always(tags, major, minor, tag_prefix) == TRUE

ga_exists(tags, major, minor, tag_prefix) ==
    tag_exists(tags, tag_prefix \o str(major) \o <<".">> \o str(minor) \o <<".", "0">>)

\* increment_rc without the increment
increment_rc_stuck(current_rc) == IF current_rc = None THEN 1 ELSE current_rc[1]

increment_rc(current_rc) == IF current_rc = None THEN 1 ELSE current_rc[1] + 1

\* increment_patch without the increment
increment_patch_stuck(current_patch) == IF current_patch = None THEN 1 ELSE current_patch[1]

increment_patch(current_patch) == IF current_patch = None THEN 1 ELSE current_patch[1] + 1

\* get_next_rc_tag naming the latest RC, not the one after it
get_next_rc_tag_latest(tags, major, minor, tag_prefix) ==
    tag_prefix \o str(major) \o <<".">> \o str(minor) \o <<".", "0", "-", "r", "c">>
        \o str(IF find_latest_rc(tags, major, minor, tag_prefix) = None THEN 1
               ELSE find_latest_rc(tags, major, minor, tag_prefix)[1])

get_next_rc_tag(tags, major, minor, tag_prefix) ==
    tag_prefix \o str(major) \o <<".">> \o str(minor) \o <<".", "0", "-", "r", "c">>
        \o str(increment_rc(find_latest_rc(tags, major, minor, tag_prefix)))

\* get_next_patch_tag naming the latest patch, not the one after it
get_next_patch_tag_latest(tags, major, minor, tag_prefix) ==
    tag_prefix \o str(major) \o <<".">> \o str(minor) \o <<".">>
        \o str(IF find_latest_patch(tags, major, minor, tag_prefix) = None THEN 1
               ELSE find_latest_patch(tags, major, minor, tag_prefix)[1])

get_next_patch_tag(tags, major, minor, tag_prefix) ==
    tag_prefix \o str(major) \o <<".">> \o str(minor) \o <<".">>
        \o str(increment_patch(find_latest_patch(tags, major, minor, tag_prefix)))

is_rc_tag(tag_name, tag_prefix) == ReMatch(create_rc_pattern(tag_prefix), tag_name) # None

\* is_ga_tag's test taking every release tag for a GA tag
PatchIsZero_any(match) == match # None

PatchIsZero(match) == IF match # None THEN int(match[3]) = 0 ELSE FALSE

is_ga_tag(tag_name, tag_prefix) ==
    PatchIsZero(ReMatch(create_patch_pattern(tag_prefix), tag_name))

PatchIsPositive(match) == IF match # None THEN int(match[3]) > 0 ELSE FALSE

is_patch_tag(tag_name, tag_prefix) ==
    PatchIsPositive(ReMatch(create_patch_pattern(tag_prefix), tag_name))

(***************************************************************************)
(* Alias resolver (src/aliases.py).                                        *)
(***************************************************************************)
\* _create_patch_pattern of src/aliases.py, a copy of the one of src/tags.py
aliases_create_patch_pattern(tag_prefix) ==
    re_escape(tag_prefix) \o <<Digits1, Lit("."), Digits1, Lit("."), Digits1>>

ReleaseTuple(match) ==
    IF match # None THEN <<int(match[1]), int(match[2]), int(match[3])>> ELSE None

parse_release_tag(tag_name, tag_prefix) ==
    ReleaseTuple(ReMatch(aliases_create_patch_pattern(tag_prefix), tag_name))

\* the loop body of find_highest_major_version comparing the patch alone
find_highest_major_step_patch(parsed, major, highest) ==
    IF parsed = None THEN highest
    ELSE IF parsed[1] # major THEN highest
    ELSE IF highest = None THEN parsed
    ELSE IF parsed[3] > highest[3] THEN parsed
    ELSE highest

\* the body of the loop of find_highest_major_version
find_highest_major_step(parsed, major, highest) ==
    IF parsed = None THEN highest
    ELSE IF parsed[1] # major THEN highest
    ELSE IF highest = None THEN parsed
    ELSE IF TupleGT(<<parsed[2], parsed[3]>>, <<highest[2], highest[3]>>) THEN parsed
    ELSE highest

RECURSIVE find_highest_major_loop(_, _, _, _, _)
find_highest_major_loop(listing, i, major, tag_prefix, highest) ==
    IF i > Len(listing) THEN highest
    ELSE find_highest_major_loop(listing, i + 1, major, tag_prefix,
             find_highest_major_step(parse_release_tag(listing[i].name, tag_prefix),
                                     major, highest))

\* find_highest_major_version on the answer of api.list_tags()
find_highest_major_in(listing, major, tag_prefix) ==
    find_highest_major_loop(listing, 1, major, tag_prefix, None)

find_highest_major_version(tags, major, tag_prefix) ==
    find_highest_major_in(list_tags(tags), major, tag_prefix)

\* the body of the loop of find_highest_minor_version
find_highest_minor_step(parsed, major, minor, highest) ==
    IF parsed = None THEN highest
    ELSE IF parsed[1] # major \/ parsed[2] # minor THEN highest
    ELSE IF highest = None \/ parsed[3] > highest[3] THEN parsed
    ELSE highest

RECURSIVE find_highest_minor_loop(_, _, _, _, _, _)
find_highest_minor_loop(listing, i, major, minor, tag_prefix, highest) ==
    IF i > Len(listing) THEN highest
    ELSE find_highest_minor_loop(listing, i + 1, major, minor, tag_prefix,
             find_highest_minor_step(parse_release_tag(listing[i].name, tag_prefix),
                                     major, minor, highest))

\* find_highest_minor_version on the answer of api.list_tags()
find_highest_minor_in(listing, major, minor, tag_prefix) ==
    find_highest_minor_loop(listing, 1, major, minor, tag_prefix, None)

find_highest_minor_version(tags, major, minor, tag_prefix) ==
    find_highest_minor_in(list_tags(tags), major, minor, tag_prefix)

\* a collaborator call as the invocation's record keeps it
Call(op, tag_name, commit_sha, ok) ==
    [op |-> op, name |-> tag_name, sha |-> commit_sha, ok |-> ok]

\* the outcome of one alias step: r is the collaborator's answer to op
AliasStep(op, alias_name, commit_sha, r) ==
    [ok |-> r.ok, tags |-> r.tags, updated |-> r.ok,
     calls |-> <<Call(op, alias_name, commit_sha, r.ok)>>]

NoAliasStep(tags) == [ok |-> TRUE, tags |-> tags, updated |-> FALSE, calls |-> <<>>]

\* _update_or_create_alias that creates the alias whether it exists or not
update_or_create_alias_create(tags, alias_name, commit_sha) ==
    AliasStep("create_tag", alias_name, commit_sha,
              api_create_tag(tags, alias_name, commit_sha))

\* _update_or_create_alias that force-moves the alias whether it exists or
\* not
update_or_create_alias_move(tags, alias_name, commit_sha) ==
    AliasStep("update_tag", alias_name, commit_sha,
              api_update_tag(tags, alias_name, commit_sha))

\* _update_or_create_alias
update_or_create_alias(tags, alias_name, commit_sha) ==
    IF tag_exists(tags, alias_name)
    THEN AliasStep("update_tag", alias_name, commit_sha,
                   api_update_tag(tags, alias_name, commit_sha))
    ELSE AliasStep("create_tag", alias_name, commit_sha,
                   api_create_tag(tags, alias_name, commit_sha))

\* alias_is_due without the comparison
alias_is_due_always(parsed, highest) == highest # None

\* alias_is_due with <= for >=
alias_is_due_lower(parsed, highest) == highest # None /\ TupleGE(highest, parsed)

\* alias_is_due with > for >=
alias_is_due_strict(parsed, highest) == highest # None /\ TupleGT(parsed, highest)

\* the test of update_alias_tags before it touches an alias
alias_is_due(parsed, highest) == highest # None /\ TupleGE(parsed, highest)

\* the minor-alias step of update_alias_tags
update_minor_alias(tags, parsed, commit_sha, tag_prefix, skip_minor_alias) ==
    IF ~skip_minor_alias
       /\ alias_is_due(parsed, find_highest_minor_version(tags, parsed[1], parsed[2],
                                                          tag_prefix))
    THEN update_or_create_alias(tags, tag_prefix \o str(parsed[1]) \o <<".">> \o str(parsed[2]),
                                commit_sha)
    ELSE NoAliasStep(tags)

\* the major-alias step naming the alias {tag_prefix}X.0.0
update_major_alias_full(tags, parsed, commit_sha, tag_prefix) ==
    IF alias_is_due(parsed, find_highest_major_version(tags, parsed[1], tag_prefix))
    THEN update_or_create_alias(tags, tag_prefix \o str(parsed[1]) \o <<".", "0", ".", "0">>,
                                commit_sha)
    ELSE NoAliasStep(tags)

\* the major-alias step of update_alias_tags
update_major_alias(tags, parsed, commit_sha, tag_prefix) ==
    IF alias_is_due(parsed, find_highest_major_version(tags, parsed[1], tag_prefix))
    THEN update_or_create_alias(tags, tag_prefix \o str(parsed[1]), commit_sha)
    ELSE NoAliasStep(tags)

\* update_alias_tags gives [ok, tags, calls, result]; ok is FALSE when a
\* collaborator call raised, and the function ends there
AliasResult(mi, ma) ==
    [ok |-> ma.ok, tags |-> ma.tags, calls |-> mi.calls \o ma.calls,
     result |-> [major |-> ma.updated, minor |-> mi.updated]]

\* update_alias_tags from its major-alias step on, mi the minor step's outcome
update_alias_major_part(mi, parsed, commit_sha, tag_prefix) ==
    IF ~mi.ok THEN AliasResult(mi, [NoAliasStep(mi.tags) EXCEPT !.ok = FALSE])
    ELSE AliasResult(mi, update_major_alias(mi.tags, parsed, commit_sha, tag_prefix))

\* update_alias_tags once the release tag is parsed
update_alias_parsed(tags, parsed, commit_sha, tag_prefix, skip_minor_alias) ==
    IF parsed = None THEN AliasResult(NoAliasStep(tags), NoAliasStep(tags))
    ELSE update_alias_major_part(
             update_minor_alias(tags, parsed, commit_sha, tag_prefix, skip_minor_alias),
             parsed, commit_sha, tag_prefix)

update_alias_tags(tags, tag_name, commit_sha, tag_prefix, skip_minor_alias) ==
    IF is_rc_tag(tag_name, tag_prefix)
    THEN AliasResult(NoAliasStep(tags), NoAliasStep(tags))
    ELSE update_alias_parsed(tags, parse_release_tag(tag_name, tag_prefix), commit_sha,
                             tag_prefix, skip_minor_alias)

should_update(version, highest) == IF highest = None THEN TRUE ELSE TupleGE(version, highest)

should_update_major_alias(tags, major, minor, patch, tag_prefix) ==
    should_update(<<major, minor, patch>>, find_highest_major_version(tags, major, tag_prefix))

should_update_minor_alias(tags, major, minor, patch, tag_prefix) ==
    should_update(<<major, minor, patch>>,
                  find_highest_minor_version(tags, major, minor, tag_prefix))

(***************************************************************************)
(* Event router (src/main.py).  A handler gives [exit, out, tags, calls]:  *)
(* exit is "ok" when it returns (main then writes out with set_outputs),   *)
(* "exit1" when it ends in sys.exit(1), "raised" when a collaborator       *)
(* exception leaves it; calls are the collaborator's mutations it asked    *)
(* for, in order.                                                          *)
(***************************************************************************)
ActionOutputs == [tag |-> <<>>, tag_type |-> "skipped", major |-> <<>>, minor |-> <<>>]

GitHubContext(event_name, ref_name, ref_type, sha) ==
    [event_name |-> event_name, ref_name |-> ref_name, ref_type |-> ref_type, sha |-> sha]

Returned(out, tags) == [exit |-> "ok", out |-> out, tags |-> tags, calls |-> <<>>]

\* the handler's end after a tags.create_tag whose exception is caught and
\* dropped
Created_suppressed(out, tag_name, commit_sha, r) ==
    [exit |-> "ok", out |-> out, tags |-> r.tags,
     calls |-> <<Call("create_tag", tag_name, commit_sha, r.ok)>>]

\* the handler's end after tags.create_tag(tag_name, commit_sha), r the
\* collaborator's answer: an exception leaves the handler
Created(out, tag_name, commit_sha, r) ==
    [exit |-> IF r.ok THEN "ok" ELSE "raised", out |-> out, tags |-> r.tags,
     calls |-> <<Call("create_tag", tag_name, commit_sha, r.ok)>>]

\* tags.create_tag as the handlers use it
create_tag(out, tags, tag_name, commit_sha) ==
    Created(out, tag_name, commit_sha, api_create_tag(tags, tag_name, commit_sha))

\* the handler's end after _update_aliases_with_skip_logic, a its outcome
Aliased(r, a) ==
    [exit |-> IF a.ok THEN "ok" ELSE "raised", out |-> r.out, tags |-> a.tags,
     calls |-> r.calls \o a.calls]

update_aliases_with_skip_logic(tags, tag_name, commit_sha, inputs) ==
    update_alias_tags(tags, tag_name, commit_sha, inputs.tag_prefix,
                      should_skip_minor_alias(inputs.release_prefix, inputs.tag_prefix))

\* handle_branch_create once the branch is parsed
branch_create_version(tags, context, inputs, version) ==
    IF version = None THEN Returned(ActionOutputs, tags)
    ELSE IF inputs.dry_run
    THEN Returned([tag |-> inputs.tag_prefix \o str(version[1]) \o <<".">> \o str(version[2])
                               \o <<".", "0", "-", "r", "c", "1">>,
                   tag_type |-> "rc",
                   major |-> str(version[1]), minor |-> str(version[2])], tags)
    ELSE create_tag([tag |-> inputs.tag_prefix \o str(version[1]) \o <<".">> \o str(version[2])
                                 \o <<".", "0", "-", "r", "c", "1">>,
                     tag_type |-> "rc",
                     major |-> str(version[1]), minor |-> str(version[2])],
                    tags,
                    inputs.tag_prefix \o str(version[1]) \o <<".">> \o str(version[2])
                        \o <<".", "0", "-", "r", "c", "1">>,
                    context.sha)

handle_branch_create(tags, context, inputs) ==
    branch_create_version(tags, context, inputs,
                          parse_branch(context.ref_name, inputs.release_prefix))

\* _commit_has_version_tag returns the first tag of the listing that is on
\* the commit and starts with the prefix; the collaborator decides the
\* listing's order, so every such tag is a possible answer
VersionTagsOf(found) == IF found = {} THEN {None} ELSE found

\* _commit_has_version_tag finding nothing
commit_has_version_tag_never(tags, commit_sha, tag_prefix) == {None}

commit_has_version_tag(tags, commit_sha, tag_prefix) ==
    VersionTagsOf({ t \in DOMAIN tags : tags[t] = commit_sha /\ StartsWith(t, tag_prefix) })

\* commit_push_aliases without the test of inputs.aliases
commit_push_aliases_always(r, tag_name, context, inputs) ==
    IF r.exit # "ok" THEN r
    ELSE Aliased(r, update_aliases_with_skip_logic(r.tags, tag_name, context.sha, inputs))

\* the patch branch of handle_commit_push after create_tag, r its outcome
commit_push_aliases(r, tag_name, context, inputs) ==
    IF r.exit # "ok" \/ ~inputs.aliases THEN r
    ELSE Aliased(r, update_aliases_with_skip_logic(r.tags, tag_name, context.sha, inputs))

\* the patch branch of handle_commit_push, tag_name the next patch tag
commit_push_patch(tags, context, inputs, outputs, tag_name) ==
    IF inputs.dry_run
    THEN Returned([outputs EXCEPT !.tag = tag_name, !.tag_type = "patch"], tags)
    ELSE commit_push_aliases(
             create_tag([outputs EXCEPT !.tag = tag_name, !.tag_type = "patch"],
                        tags, tag_name, context.sha),
             tag_name, context, inputs)

\* the RC branch of handle_commit_push, tag_name the next RC tag
commit_push_rc(tags, context, inputs, outputs, tag_name) ==
    IF inputs.dry_run
    THEN Returned([outputs EXCEPT !.tag = tag_name, !.tag_type = "rc"], tags)
    ELSE create_tag([outputs EXCEPT !.tag = tag_name, !.tag_type = "rc"],
                    tags, tag_name, context.sha)

\* handle_commit_push once the branch is parsed; existing_tag is the answer
\* of _commit_has_version_tag
commit_push_version(tags, context, inputs, version, existing_tag) ==
    IF version = None THEN Returned(ActionOutputs, tags)
    ELSE IF Len(existing_tag) > 0
    THEN Returned([tag |-> existing_tag, tag_type |-> "skipped",
                   major |-> str(version[1]), minor |-> str(version[2])], tags)
    ELSE IF ga_exists(tags, version[1], version[2], inputs.tag_prefix)
    THEN commit_push_patch(tags, context, inputs,
             [ActionOutputs EXCEPT !.major = str(version[1]), !.minor = str(version[2])],
             get_next_patch_tag(tags, version[1], version[2], inputs.tag_prefix))
    ELSE commit_push_rc(tags, context, inputs,
             [ActionOutputs EXCEPT !.major = str(version[1]), !.minor = str(version[2])],
             get_next_rc_tag(tags, version[1], version[2], inputs.tag_prefix))

handle_commit_push(tags, context, inputs, branch_name, existing_tag) ==
    commit_push_version(tags, context, inputs,
        parse_branch(IF Len(branch_name) > 0 THEN branch_name ELSE context.ref_name,
                     inputs.release_prefix),
        existing_tag)

\* the result of _parse_tag_version from its two matches
TagVersion(rc_match, patch_match) ==
    IF rc_match # None THEN <<int(rc_match[1]), int(rc_match[2])>>
    ELSE IF patch_match # None THEN <<int(patch_match[1]), int(patch_match[2])>>
    ELSE None

parse_tag_version(tag_name, tag_prefix) ==
    TagVersion(ReMatch(re_escape(tag_prefix) \o
                       <<Digits1, Lit("."), Digits1, Lit("."), Lit("0"), Lit("-"),
                         Lit("r"), Lit("c"), DigitsNoGroup>>, tag_name),
               ReMatch(re_escape(tag_prefix) \o
                       <<Digits1, Lit("."), Digits1, Lit("."), DigitsNoGroup>>, tag_name))

\* CommitIsOn taking a collaborator exception for reachable
CommitIsOn_open(commit_sha, commits) == IF commits.ok THEN commit_sha \in commits.shas ELSE TRUE

CommitIsOn(commit_sha, commits) == IF commits.ok THEN commit_sha \in commits.shas ELSE FALSE

\* _validate_tag_on_branch: a collaborator exception counts as not reachable
validate_tag_on_branch(heads, history, commit_sha, branch_name) ==
    CommitIsOn(commit_sha, get_branch_commits(heads, history, branch_name))

\* handle_tag_push once the tag is validated
tag_push_validated(tags, context, inputs, outputs) ==
    IF is_rc_tag(context.ref_name, inputs.tag_prefix)
    THEN Returned([outputs EXCEPT !.tag_type = "rc"], tags)
    ELSE IF ~inputs.dry_run /\ inputs.aliases
    THEN Aliased(Returned([outputs EXCEPT !.tag_type =
                               IF is_ga_tag(context.ref_name, inputs.tag_prefix)
                               THEN "ga" ELSE "patch"], tags),
                 update_aliases_with_skip_logic(tags, context.ref_name, context.sha, inputs))
    ELSE Returned([outputs EXCEPT !.tag_type =
                       IF is_ga_tag(context.ref_name, inputs.tag_prefix)
                       THEN "ga" ELSE "patch"], tags)

\* handle_tag_push once the tag is parsed
tag_push_version(tags, heads, history, context, inputs, version) ==
    IF version = None THEN Returned(ActionOutputs, tags)
    ELSE IF ~validate_tag_on_branch(heads, history, context.sha,
                inputs.release_prefix \o str(version[1]) \o <<".">> \o str(version[2]))
    THEN [exit |-> "exit1", tags |-> tags, calls |-> <<>>,
          out |-> [ActionOutputs EXCEPT !.major = str(version[1]),
                                        !.minor = str(version[2]), !.tag = context.ref_name]]
    ELSE tag_push_validated(tags, context, inputs,
             [ActionOutputs EXCEPT !.major = str(version[1]),
                                   !.minor = str(version[2]), !.tag = context.ref_name])

\* handle_tag_push exiting on a tag name it cannot parse
handle_tag_push_strict(tags, heads, history, context, inputs) ==
    IF parse_tag_version(context.ref_name, inputs.tag_prefix) = None
    THEN [exit |-> "exit1", out |-> ActionOutputs, tags |-> tags, calls |-> <<>>]
    ELSE tag_push_version(tags, heads, history, context, inputs,
                          parse_tag_version(context.ref_name, inputs.tag_prefix))

handle_tag_push(tags, heads, history, context, inputs) ==
    tag_push_version(tags, heads, history, context, inputs,
                     parse_tag_version(context.ref_name, inputs.tag_prefix))

\* handle_workflow_dispatch without the test of the resolved branch
handle_workflow_dispatch_lenient(tags, context, inputs, input_target_branch, existing_tag) ==
    handle_commit_push(tags, context, inputs,
        IF Len(input_target_branch) > 0 THEN input_target_branch ELSE context.ref_name,
        existing_tag)

\* handle_workflow_dispatch handing the event's own branch to
\* handle_commit_push
handle_workflow_dispatch_ref(tags, context, inputs, input_target_branch, existing_tag) ==
    IF parse_branch(IF Len(input_target_branch) > 0 THEN input_target_branch
                    ELSE context.ref_name, inputs.release_prefix) = None
    THEN [exit |-> "exit1", out |-> ActionOutputs, tags |-> tags, calls |-> <<>>]
    ELSE handle_commit_push(tags, context, inputs, <<>>, existing_tag)

handle_workflow_dispatch(tags, context, inputs, input_target_branch, existing_tag) ==
    IF parse_branch(IF Len(input_target_branch) > 0 THEN input_target_branch
                    ELSE context.ref_name, inputs.release_prefix) = None
    THEN [exit |-> "exit1", out |-> ActionOutputs, tags |-> tags, calls |-> <<>>]
    ELSE handle_commit_push(tags, context, inputs,
             IF Len(input_target_branch) > 0 THEN input_target_branch ELSE context.ref_name,
             existing_tag)

\* the end of main() before any handler: api tells whether GitHubAPI was
\* constructed
Exited(stage, tags, api) ==
    [exit |-> "exit1", out |-> ActionOutputs, tags |-> tags, calls |-> <<>>,
     stage |-> stage, api |-> api]

\* the end of main() after its handler returned r
Handled(r) ==
    [exit |-> r.exit, out |-> r.out, tags |-> r.tags, calls |-> r.calls,
     stage |-> "handler", api |-> TRUE]

\* parse_inputs: the ActionInputs of the environment, None when a prefix is
\* invalid (sys.exit(1))
parse_inputs(environ) ==
    IF ~validate_prefix(environ.INPUT_RELEASE_PREFIX) THEN None
    ELSE IF ~validate_prefix(environ.INPUT_TAG_PREFIX) THEN None
    ELSE [token |-> environ.INPUT_TOKEN, dry_run |-> environ.INPUT_DRY_RUN,
          aliases |-> environ.INPUT_ALIASES, target_branch |-> environ.INPUT_TARGET_BRANCH,
          release_prefix |-> environ.INPUT_RELEASE_PREFIX,
          tag_prefix |-> environ.INPUT_TAG_PREFIX]

\* the routing of main(), parsed the valid inputs
main_route(tags, heads, history, context, parsed, existing_tag) ==
    IF context.event_name = "create" /\ context.ref_type = "branch"
    THEN Handled(handle_branch_create(tags, context, parsed))
    ELSE IF context.event_name = "push" /\ context.ref_type = "tag"
    THEN Handled(handle_tag_push(tags, heads, history, context, parsed))
    ELSE IF context.event_name = "push" /\ context.ref_type = "branch"
    THEN Handled(handle_commit_push(tags, context, parsed, <<>>, existing_tag))
    ELSE IF context.event_name = "workflow_dispatch"
    THEN Handled(handle_workflow_dispatch(tags, context, parsed, parsed.target_branch,
                                          existing_tag))
    ELSE Handled(Returned(ActionOutputs, tags))

\* main() with a token check that comes after the handler
main_parsed_late(tags, heads, history, context, repository, parsed, existing_tag) ==
    IF parsed = None THEN Exited("inputs", tags, FALSE)
    ELSE IF Len(repository) = 0 THEN Exited("api", tags, FALSE)
    ELSE main_route(tags, heads, history, context, parsed, existing_tag)

\* main() once parse_inputs returned parsed, or exited (None)
main_parsed(tags, heads, history, context, repository, parsed, existing_tag) ==
    IF parsed = None THEN Exited("inputs", tags, FALSE)
    ELSE IF Len(parsed.token) = 0 THEN Exited("token", tags, FALSE)
    ELSE IF Len(repository) = 0 THEN Exited("api", tags, FALSE)
    ELSE main_route(tags, heads, history, context, parsed, existing_tag)

(***************************************************************************)
(* The names and configurations the model draws from.                      *)
(***************************************************************************)
\* ActionInputs.release_prefix and ActionInputs.tag_prefix, their defaults
DefaultReleasePrefix == <<"r", "e", "l", "e", "a", "s", "e", "/", "v">>
DefaultTagPrefix == <<"v">>

BranchName(prefix, major, minor) == prefix \o str(major) \o <<".">> \o str(minor)

ReleaseName(prefix, major, minor, patch) ==
    prefix \o str(major) \o <<".">> \o str(minor) \o <<".">> \o str(patch)

RcName(prefix, major, minor, rc) ==
    prefix \o str(major) \o <<".">> \o str(minor) \o <<".", "0", "-", "r", "c">> \o str(rc)

\* the configurations: the default prefixes, and one prefix for both
Configs ==
    { [dry_run |-> d, aliases |-> a, release_prefix |-> p, tag_prefix |-> DefaultTagPrefix] :
        d \in BOOLEAN, a \in BOOLEAN, p \in {DefaultReleasePrefix, DefaultTagPrefix} }

\* the branches users create and push to
BranchNames ==
    { BranchName(DefaultReleasePrefix, 1, 1), BranchName(DefaultReleasePrefix, 1, 2),
      BranchName(DefaultTagPrefix, 1, 2), <<"m", "a", "i", "n">> }

\* the tags users push by hand: releases, release candidates (the first
\* one, and one leaving a gap), a GA tag written with a leading zero, a tag
\* that has the prefix and no version, a tag of another prefix
ManualTagNames ==
    { ReleaseName(DefaultTagPrefix, 1, 1, 0), ReleaseName(DefaultTagPrefix, 1, 2, 0),
      ReleaseName(DefaultTagPrefix, 1, 2, 1), RcName(DefaultTagPrefix, 1, 2, 1),
      RcName(DefaultTagPrefix, 1, 2, 3),
      <<"v", "1", ".", "0", "2", ".", "0">>, <<"v", "x">>,
      ReleaseName(<<"w">>, 1, 2, 0) }

\* the versions the claims range over
Majors == 0..2
Minors == 0..3

(***************************************************************************)
(* State.                                                                  *)
(***************************************************************************)
VARIABLES
    inputs,     \* ActionInputs: the workflow's configuration
    tags,       \* the repository's tags: name -> commit
    heads,      \* the repository's branches: name -> head commit
    history,    \* commit -> the commits reachable from it, itself included
    nevents,    \* events handled so far
    last,       \* the last invocation: its context, exit, outputs and calls
    run,        \* the successive commit-pushes to one branch since its
                \* series had no RC (or no patch) tag, and the tags they created
    rejected,   \* a GA or patch tag was pushed and handle_tag_push exited 1
    listing,    \* a tag listing the functions on listings are asked about
    answer,     \* what they answered
    env,        \* the process environment main() reads its inputs from
    procs       \* concurrent commit-push invocations, each with its position
                \* in handle_commit_push and what it has read so far

vars == <<inputs, tags, heads, history, nevents, last, run, rejected, listing, answer,
          env, procs>>

NoInvocation ==
    [event |-> "none", ref |-> <<>>, sha |-> 0, target |-> <<>>,
     exit |-> "ok", out |-> ActionOutputs, calls |-> <<>>]

Invocation(event, ref, sha, target, r) ==
    [event |-> event, ref |-> ref, sha |-> sha, target |-> target,
     exit |-> r.exit, out |-> r.out, calls |-> r.calls]

NoRun == [kind |-> "none", branch |-> <<>>, pushes |-> 0, created |-> <<>>]

\* the environment of a run whose inputs are parsed already
NoEnv == <<>>

NoAnswer == [asked |-> "none", major |-> 0, minor |-> 0, result |-> None]

Init ==
    /\ inputs \in Configs
    /\ tags = <<>>
    /\ heads = <<>>
    /\ history = <<>>
    /\ nevents = 0
    /\ last = NoInvocation
    /\ run = NoRun
    /\ rejected = FALSE
    /\ listing = <<>>
    /\ answer = NoAnswer
    /\ env = NoEnv
    /\ procs = <<>>

Commits == DOMAIN history

FreshCommit == Cardinality(Commits) + 1

\* the commits a push event to the branch can be about: a new commit on top
\* of its head, or (the event fired again, or fired with the branch's
\* creation) a commit the branch has; a new branch starts at any commit
PushCommits(branch) ==
    (IF FreshCommit <= MaxCommits THEN {FreshCommit} ELSE {})
    \cup (IF branch \in DOMAIN heads THEN history[heads[branch]] ELSE Commits)

\* the repository after the user's push of commit sha to the branch
RepoAfterPush(branch, sha) ==
    IF sha \in Commits
    THEN [heads |-> IF branch \in DOMAIN heads THEN heads ELSE (branch :> sha) @@ heads,
          history |-> history]
    ELSE [heads |-> (branch :> sha) @@ heads,
          history |-> (sha :> ((IF branch \in DOMAIN heads
                                THEN history[heads[branch]] ELSE {}) \cup {sha}))
                      @@ history]

\* the release tags an invocation created
CreatedTags(calls) ==
    SelectSeq(calls, LAMBDA c : c.op = "create_tag" /\ c.ok)

\* the tags of the listing that are release candidates (resp. patches, GA
\* excluded) of the series
SeriesRcTags(ts, major, minor, tag_prefix) ==
    { t \in DOMAIN ts :
        LET m == ReMatch(create_rc_pattern(tag_prefix), t) IN
        m # None /\ int(m[1]) = major /\ int(m[2]) = minor }

SeriesPatchTags(ts, major, minor, tag_prefix) ==
    { t \in DOMAIN ts :
        LET m == ReMatch(create_patch_pattern(tag_prefix), t) IN
        m # None /\ int(m[1]) = major /\ int(m[2]) = minor /\ int(m[3]) > 0 }

\* run after a commit-push to the branch that created the tags of r: the
\* push opens a run when the series has no RC tag and no GA tag (kind rc),
\* or has its GA tag and no patch tag (kind patch); it continues the run of
\* its branch; a push to a commit that carries a version tag, to another
\* branch or in dry-run mode ends the run
RunAfterPush(branch, sha, r) ==
    LET version == parse_branch(branch, inputs.release_prefix)
        untagged == commit_has_version_tag(tags, sha, inputs.tag_prefix) = {None}
        ga == ReleaseName(inputs.tag_prefix, version[1], version[2], 0) \in DOMAIN tags
        new == [i \in 1..Len(CreatedTags(r.calls)) |-> CreatedTags(r.calls)[i].name]
        release == IF Len(new) > 0 THEN <<new[1]>> ELSE <<>>
    IN  IF version = None \/ ~untagged \/ inputs.dry_run THEN NoRun
        ELSE IF ~ga /\ SeriesRcTags(tags, version[1], version[2], inputs.tag_prefix) = {}
        THEN [kind |-> "rc", branch |-> branch, pushes |-> 1, created |-> release]
        ELSE IF ga /\ SeriesPatchTags(tags, version[1], version[2], inputs.tag_prefix) = {}
        THEN [kind |-> "patch", branch |-> branch, pushes |-> 1, created |-> release]
        ELSE IF run.kind # "none" /\ run.branch = branch
        THEN [run EXCEPT !.pushes = @ + 1, !.created = @ \o release]
        ELSE NoRun

(***************************************************************************)
(* Events.  Each is the user's change of the repository, if any, and the   *)
(* handler main() routes the event it fires to.                            *)
(***************************************************************************)
\* a branch is created at a commit, or the create event of a branch fires
\* again
BranchCreate(branch, sha) ==
    /\ nevents < MaxEvents
    /\ sha \in PushCommits(branch)
    /\ branch \in DOMAIN heads => sha \in Commits
    /\ LET repo == RepoAfterPush(branch, sha)
           r == handle_branch_create(tags, GitHubContext("create", branch, "branch", sha),
                                     inputs)
       IN  /\ heads' = repo.heads
           /\ history' = repo.history
           /\ tags' = r.tags
           /\ last' = Invocation("create", branch, sha, <<>>, r)
    /\ run' = NoRun
    /\ nevents' = nevents + 1
    /\ UNCHANGED <<inputs, rejected, listing, answer, env, procs>>

\* a commit is pushed to a branch (a new one, or a new branch's first), or
\* the push event of a commit fires again
CommitPush(branch, sha) ==
    /\ nevents < MaxEvents
    /\ sha \in PushCommits(branch)
    /\ \E existing_tag \in commit_has_version_tag(tags, sha, inputs.tag_prefix) :
         LET repo == RepoAfterPush(branch, sha)
             r == handle_commit_push(tags, GitHubContext("push", branch, "branch", sha),
                                     inputs, <<>>, existing_tag)
         IN  /\ heads' = repo.heads
             /\ history' = repo.history
             /\ tags' = r.tags
             /\ last' = Invocation("push", branch, sha, <<>>, r)
             /\ run' = RunAfterPush(branch, sha, r)
    /\ nevents' = nevents + 1
    /\ UNCHANGED <<inputs, rejected, listing, answer, env, procs>>

\* a tag is pushed by hand to a commit, or the push event of a tag fires
\* again
TagPush(tag_name, sha) ==
    /\ nevents < MaxEvents
    /\ sha \in Commits
    /\ tag_name \in DOMAIN tags => tags[tag_name] = sha
    /\ LET pushed == IF tag_name \in DOMAIN tags THEN tags ELSE (tag_name :> sha) @@ tags
           r == handle_tag_push(pushed, heads, history,
                                GitHubContext("push", tag_name, "tag", sha), inputs)
       IN  /\ tags' = r.tags
           /\ last' = Invocation("tag", tag_name, sha, <<>>, r)
           /\ rejected' = (rejected \/ (/\ r.exit = "exit1"
                                         /\ parse_release_tag(tag_name, inputs.tag_prefix) # None))
    /\ run' = NoRun
    /\ nevents' = nevents + 1
    /\ UNCHANGED <<inputs, heads, history, listing, answer, env, procs>>

\* the workflow is dispatched by hand on a branch, with a target-branch input
WorkflowDispatch(ref_name, input_target_branch) ==
    /\ nevents < MaxEvents
    /\ ref_name \in DOMAIN heads
    /\ \E existing_tag \in commit_has_version_tag(tags, heads[ref_name], inputs.tag_prefix) :
         LET r == handle_workflow_dispatch(tags,
                       GitHubContext("workflow_dispatch", ref_name, "branch", heads[ref_name]),
                       inputs, input_target_branch, existing_tag)
         IN  /\ tags' = r.tags
             /\ last' = Invocation("dispatch", ref_name, heads[ref_name],
                                   input_target_branch, r)
    /\ run' = NoRun
    /\ nevents' = nevents + 1
    /\ UNCHANGED <<inputs, heads, history, rejected, listing, answer, env, procs>>

Next ==
    \/ \E branch \in BranchNames, sha \in 1..MaxCommits : BranchCreate(branch, sha)
    \/ \E branch \in BranchNames, sha \in 1..MaxCommits : CommitPush(branch, sha)
    \/ \E tag_name \in ManualTagNames, sha \in 1..MaxCommits : TagPush(tag_name, sha)
    \/ \E ref_name \in BranchNames, target \in BranchNames \cup {<<>>} :
           WorkflowDispatch(ref_name, target)

Spec == Init /\ [][Next]_vars

(***************************************************************************)
(* The functions on tag listings, asked about listings of every order.     *)
(***************************************************************************)
MaxListing == 3

\* the names of a listing: releases of two minors and two majors, one with
\* a leading zero, a release candidate, an alias, a tag of another prefix
ListedNames ==
    { ReleaseName(DefaultTagPrefix, 1, 2, 0), ReleaseName(DefaultTagPrefix, 1, 2, 1),
      ReleaseName(DefaultTagPrefix, 1, 3, 0), ReleaseName(DefaultTagPrefix, 2, 0, 1),
      <<"v", "1", ".", "0", "2", ".", "2">>, RcName(DefaultTagPrefix, 1, 3, 2),
      DefaultTagPrefix \o str(1), ReleaseName(<<"w">>, 1, 3, 3) }

\* the answers of api.list_tags(): the names are distinct, in any order
Listings ==
    { [i \in DOMAIN names |-> [name |-> names[i], sha |-> i]] :
        names \in { s \in UNION { [1..n -> ListedNames] : n \in 0..MaxListing } :
                      \A i, j \in DOMAIN s : s[i] = s[j] => i = j } }

\* the repository that api.list_tags() lists
ListedTags(l) ==
    [name \in { l[i].name : i \in DOMAIN l } |-> (CHOOSE i \in DOMAIN l : l[i].name = name)]

ListingInit ==
    /\ inputs = [dry_run |-> FALSE, aliases |-> TRUE,
                 release_prefix |-> DefaultReleasePrefix, tag_prefix |-> DefaultTagPrefix]
    /\ heads = <<>>
    /\ history = <<>>
    /\ nevents = 0
    /\ last = NoInvocation
    /\ run = NoRun
    /\ rejected = FALSE
    /\ listing \in Listings
    /\ tags = ListedTags(listing)
    /\ answer = NoAnswer
    /\ env = NoEnv
    /\ procs = <<>>

\* each listing is asked about once
FindHighestMajor(major) ==
    /\ answer = NoAnswer
    /\ answer' = [asked |-> "major", major |-> major, minor |-> 0,
                  result |-> find_highest_major_in(listing, major, inputs.tag_prefix)]
    /\ UNCHANGED <<inputs, tags, heads, history, nevents, last, run, rejected, listing, env, procs>>

FindHighestMinor(major, minor) ==
    /\ answer = NoAnswer
    /\ answer' = [asked |-> "minor", major |-> major, minor |-> minor,
                  result |-> find_highest_minor_in(listing, major, minor, inputs.tag_prefix)]
    /\ UNCHANGED <<inputs, tags, heads, history, nevents, last, run, rejected, listing, env, procs>>

\* the commit of the release update_alias_tags is called for
ReleaseCommit == MaxListing + 1

\* update_alias_tags, and should_update_major_alias and
\* should_update_minor_alias for the version of the same tag (0.0.0 when
\* the tag has none), on the listing
UpdateAliasTags(tag_name, skip_minor_alias) ==
    /\ answer = NoAnswer
    /\ answer' =
         [asked |-> "update", tag |-> tag_name, skip |-> skip_minor_alias,
          major |-> 0, minor |-> 0,
          result |-> update_alias_tags(tags, tag_name, ReleaseCommit,
                                       inputs.tag_prefix, skip_minor_alias),
          should |-> LET parsed == parse_release_tag(tag_name, inputs.tag_prefix)
                         v == IF parsed = None THEN <<0, 0, 0>> ELSE parsed
                     IN  [major |-> should_update_major_alias(tags, v[1], v[2], v[3],
                                                              inputs.tag_prefix),
                          minor |-> should_update_minor_alias(tags, v[1], v[2], v[3],
                                                              inputs.tag_prefix)]]
    /\ UNCHANGED <<inputs, tags, heads, history, nevents, last, run, rejected, listing, env, procs>>

\* update_alias_tags called again for the same tag and commit, on the tags
\* its first call left
UpdateAliasTagsAgain ==
    /\ answer.asked = "update"
    /\ answer' =
         [asked |-> "again", tag |-> answer.tag, skip |-> answer.skip,
          major |-> 0, minor |-> 0,
          first |-> answer.result,
          result |-> update_alias_tags(answer.result.tags, answer.tag, ReleaseCommit,
                                       inputs.tag_prefix, answer.skip)]
    /\ UNCHANGED <<inputs, tags, heads, history, nevents, last, run, rejected, listing,
                   env, procs>>

ListingNext ==
    \/ \E major \in Majors : FindHighestMajor(major)
    \/ \E major \in Majors, minor \in Minors : FindHighestMinor(major, minor)
    \/ \E tag_name \in ListedNames, skip \in BOOLEAN : UpdateAliasTags(tag_name, skip)
    \/ UpdateAliasTagsAgain

ListingSpec == ListingInit /\ [][ListingNext]_vars

(***************************************************************************)
(* main(): the inputs are parsed from the environment and validated, the   *)
(* token is required, the GitHubAPI object is constructed (which asks the  *)
(* collaborator for the repository), and the event is routed to its        *)
(* handler.  The handlers reach the collaborator through that object only. *)
(***************************************************************************)
\* the prefixes an environment may hold: the defaults, one prefix for
\* branches and tags, an empty one, one with "..", one with "~"
EnvPrefixes ==
    { DefaultReleasePrefix, DefaultTagPrefix, <<>>, <<"v", ".", ".">>, <<"v", "~">> }

Environments ==
    [INPUT_TOKEN : {<<>>, <<"t">>}, GITHUB_REPOSITORY : {<<>>, <<"o", "/", "r">>},
     INPUT_DRY_RUN : BOOLEAN, INPUT_ALIASES : {TRUE},
     INPUT_TARGET_BRANCH : {<<>>, BranchName(DefaultReleasePrefix, 1, 2)},
     INPUT_RELEASE_PREFIX : EnvPrefixes, INPUT_TAG_PREFIX : EnvPrefixes \ {DefaultReleasePrefix}]

\* the events main() is started for: GITHUB_EVENT_NAME, GITHUB_REF_TYPE and
\* GITHUB_REF_NAME
MainEvents ==
    { <<"create", "branch", BranchName(DefaultReleasePrefix, 1, 2)>>,
      <<"push", "branch", BranchName(DefaultReleasePrefix, 1, 2)>>,
      <<"push", "branch", BranchName(DefaultTagPrefix, 1, 2)>>,
      <<"push", "tag", ReleaseName(DefaultTagPrefix, 1, 2, 0)>>,
      <<"workflow_dispatch", "branch", <<"m", "a", "i", "n">>>>,
      <<"delete", "branch", BranchName(DefaultReleasePrefix, 1, 2)>> }

\* a repository with a main branch and the release branches of 1.2 one
\* commit ahead of it, and the tags of a series before or after its GA
MainInit ==
    /\ env \in Environments
    /\ inputs = None
    /\ heads = [b \in {<<"m", "a", "i", "n">>, BranchName(DefaultReleasePrefix, 1, 2),
                       BranchName(DefaultTagPrefix, 1, 2)} |->
                   IF b = <<"m", "a", "i", "n">> THEN 1 ELSE 2]
    /\ history = <<{1}, {1, 2}>>
    /\ tags \in { <<>>,
                  (RcName(DefaultTagPrefix, 1, 2, 1) :> 1),
                  (RcName(DefaultTagPrefix, 1, 2, 1) :> 1)
                      @@ (ReleaseName(DefaultTagPrefix, 1, 2, 0) :> 1) }
    /\ nevents = 0
    /\ last = NoInvocation
    /\ run = NoRun
    /\ rejected = FALSE
    /\ listing = <<>>
    /\ answer = NoAnswer
    /\ procs = <<>>

\* one run of main() for an event on commit sha; a tag push brings its tag
Main(event, sha) ==
    /\ nevents < MaxMainRuns
    /\ sha \in Commits
    /\ event[2] = "branch" => (event[3] \in DOMAIN heads /\ sha \in history[heads[event[3]]])
    /\ (event[2] = "tag" /\ event[3] \in DOMAIN tags) => tags[event[3]] = sha
    /\ LET pushed == IF event[2] = "tag" /\ event[3] \notin DOMAIN tags
                     THEN (event[3] :> sha) @@ tags ELSE tags
           parsed == parse_inputs(env)
       IN  \E existing_tag \in (IF parsed = None THEN {None}
                                ELSE commit_has_version_tag(pushed, sha, parsed.tag_prefix)) :
             LET r == main_parsed(pushed, heads, history,
                                  GitHubContext(event[1], event[3], event[2], sha),
                                  env.GITHUB_REPOSITORY, parsed, existing_tag)
             IN  /\ tags' = r.tags
                 /\ last' = [event |-> event[1], ref |-> event[3], sha |-> sha,
                             target |-> env.INPUT_TARGET_BRANCH, exit |-> r.exit,
                             out |-> r.out, calls |-> r.calls,
                             stage |-> r.stage, api |-> r.api]
                 /\ inputs' = parsed
    /\ nevents' = nevents + 1
    /\ UNCHANGED <<heads, history, run, rejected, listing, answer, env, procs>>

MainNext == \E event \in MainEvents, sha \in 1..MaxCommits : Main(event, sha)

MainSpec == MainInit /\ [][MainNext]_vars

(***************************************************************************)
(* parse_branch as a function of the configured prefix and of a branch     *)
(* name written as a prefix, a major and a minor numeral.                  *)
(***************************************************************************)
\* the prefixes validate_prefix accepts among: the defaults, a prefix that
\* ends in a digit, a prefix of digits, one with a regex special character,
\* and an empty and a dotted one
GrammarPrefixes ==
    { prefix \in { DefaultReleasePrefix, DefaultTagPrefix, <<"v", "1">>, <<"1">>,
                   <<"p", "+">>, <<>>, <<"v", ".", ".">> } : validate_prefix(prefix) }

\* the numbers of a branch name
GrammarNumbers == {0, 1, 2, 10, 12}

\* f"{n}", with a leading zero injected or not
Numeral(n, zero) == IF zero THEN <<"0">> \o str(n) ELSE str(n)

GrammarInit ==
    /\ inputs \in { [dry_run |-> FALSE, aliases |-> TRUE, release_prefix |-> prefix,
                     tag_prefix |-> DefaultTagPrefix] : prefix \in GrammarPrefixes }
    /\ tags = <<>>
    /\ heads = <<>>
    /\ history = <<>>
    /\ nevents = 0
    /\ last = NoInvocation
    /\ run = NoRun
    /\ rejected = FALSE
    /\ listing = <<>>
    /\ answer = NoAnswer
    /\ env = NoEnv
    /\ procs = <<>>

\* parse_branch(f"{written}{major}.{minor}", release_prefix), asked once
ParseBranch(written, major, minor, zero_major, zero_minor) ==
    /\ answer = NoAnswer
    /\ answer' =
         [asked |-> "parse_branch", written |-> written, major |-> major, minor |-> minor,
          zero_major |-> zero_major, zero_minor |-> zero_minor,
          result |-> parse_branch(written \o Numeral(major, zero_major) \o <<".">>
                                      \o Numeral(minor, zero_minor),
                                  inputs.release_prefix)]
    /\ UNCHANGED <<inputs, tags, heads, history, nevents, last, run, rejected, listing,
                   env, procs>>

GrammarNext ==
    \E written \in GrammarPrefixes \cup {<<>>}, major \in GrammarNumbers,
       minor \in GrammarNumbers, zero_major \in BOOLEAN, zero_minor \in BOOLEAN :
        ParseBranch(written, major, minor, zero_major, zero_minor)

GrammarSpec == GrammarInit /\ [][GrammarNext]_vars

(***************************************************************************)
(* The sequencer and the alias resolver as functions of the tag prefix and *)
(* of the repository's tags: tags of a series with gaps in their numbers,  *)
(* with numbers written twice (with and without a leading zero), alias     *)
(* tags, tags of another series and of another prefix.                     *)
(***************************************************************************)
\* the tag names of the repositories under the prefix
SequencerNames(prefix) ==
    { RcName(prefix, 1, 2, 1), RcName(prefix, 1, 2, 3),
      prefix \o <<"1", ".", "2", ".", "0", "-", "r", "c", "0", "3">>,
      ReleaseName(prefix, 1, 2, 0), ReleaseName(prefix, 1, 2, 2),
      prefix \o <<"1", ".", "2", ".", "0", "2">>,
      ReleaseName(prefix, 1, 3, 1),
      prefix \o str(1), BranchName(prefix, 1, 2),
      RcName(DefaultTagPrefix, 12, 3, 1) }

\* the tags of the repository before the release is tagged
SequencerCommit == 1

SequencerInit ==
    /\ inputs \in { [dry_run |-> FALSE, aliases |-> TRUE,
                     release_prefix |-> DefaultReleasePrefix, tag_prefix |-> prefix] :
                      prefix \in GrammarPrefixes }
    /\ tags \in { [n \in S |-> SequencerCommit] :
                    S \in { T \in SUBSET SequencerNames(inputs.tag_prefix) :
                              Cardinality(T) <= MaxListing } }
    /\ heads = <<>>
    /\ history = <<>>
    /\ nevents = 0
    /\ last = NoInvocation
    /\ run = NoRun
    /\ rejected = FALSE
    /\ listing = <<>>
    /\ answer = NoAnswer
    /\ env = NoEnv
    /\ procs = <<>>

\* get_next_rc_tag(api, major, minor, tag_prefix), asked once
GetNextRcTag(major, minor) ==
    /\ answer = NoAnswer
    /\ answer' = [asked |-> "rc", major |-> major, minor |-> minor, before |-> tags,
                  result |-> get_next_rc_tag(tags, major, minor, inputs.tag_prefix)]
    /\ UNCHANGED <<inputs, tags, heads, history, nevents, last, run, rejected, listing,
                   env, procs>>

\* get_next_patch_tag(api, major, minor, tag_prefix), asked once
GetNextPatchTag(major, minor) ==
    /\ answer = NoAnswer
    /\ answer' = [asked |-> "patch", major |-> major, minor |-> minor, before |-> tags,
                  result |-> get_next_patch_tag(tags, major, minor, inputs.tag_prefix)]
    /\ UNCHANGED <<inputs, tags, heads, history, nevents, last, run, rejected, listing,
                   env, procs>>

\* update_alias_tags(api, tag_name, commit_sha, tag_prefix, skip_minor_alias)
\* for a tag of the repository, at a later commit
AliasUpdate(tag_name, skip_minor_alias) ==
    /\ answer = NoAnswer
    /\ tag_name \in DOMAIN tags
    /\ LET r == update_alias_tags(tags, tag_name, ReleaseCommit, inputs.tag_prefix,
                                  skip_minor_alias)
       IN  /\ tags' = r.tags
           /\ answer' = [asked |-> "aliases", major |-> 0, minor |-> 0, before |-> tags,
                         result |-> r.calls]
    /\ UNCHANGED <<inputs, heads, history, nevents, last, run, rejected, listing, env, procs>>

SequencerNext ==
    \/ \E major \in Majors, minor \in Minors : GetNextRcTag(major, minor)
    \/ \E major \in Majors, minor \in Minors : GetNextPatchTag(major, minor)
    \/ \E tag_name \in SequencerNames(inputs.tag_prefix), skip \in BOOLEAN :
           AliasUpdate(tag_name, skip)

SequencerSpec == SequencerInit /\ [][SequencerNext]_vars

(***************************************************************************)
(* Concurrent invocations.  Two commits are pushed to one release branch   *)
(* and the two runs of handle_commit_push interleave at their calls of the *)
(* collaborator: the listing of _commit_has_version_tag, the tag_exists of *)
(* ga_exists, the listing of find_latest_rc or find_latest_patch, the      *)
(* create_tag, and update_alias_tags (taken as one step).  A run whose     *)
(* create_tag was rejected can be started again.                           *)
(***************************************************************************)
RaceBranch == BranchName(DefaultReleasePrefix, 1, 2)

\* the two runs, and the commit each push is about
Runs == 1..2

RunCommit(p) == p + 1

\* a run at the start of handle_commit_push
Started(p, retry, lost) ==
    [pc |-> "guard", sha |-> RunCommit(p), retry |-> retry, lost |-> lost,
     loads |-> 0, snapshot |-> <<>>, latest |-> <<>>, ga |-> FALSE, name |-> <<>>,
     exit |-> "running", calls |-> <<>>]

\* the tags of series 1.2 the pushes find, all at the first commit: none,
\* release candidates, the GA tag, patches
RaceTags ==
    { <<>>,
      (RcName(DefaultTagPrefix, 1, 2, 1) :> 1),
      (RcName(DefaultTagPrefix, 1, 2, 1) :> 1) @@ (RcName(DefaultTagPrefix, 1, 2, 2) :> 1),
      (RcName(DefaultTagPrefix, 1, 2, 1) :> 1) @@ (ReleaseName(DefaultTagPrefix, 1, 2, 0) :> 1),
      (RcName(DefaultTagPrefix, 1, 2, 1) :> 1) @@ (ReleaseName(DefaultTagPrefix, 1, 2, 0) :> 1)
          @@ (ReleaseName(DefaultTagPrefix, 1, 2, 1) :> 1) }

RaceInit ==
    /\ inputs \in { [dry_run |-> FALSE, aliases |-> a, release_prefix |-> DefaultReleasePrefix,
                     tag_prefix |-> DefaultTagPrefix] : a \in BOOLEAN }
    /\ tags \in RaceTags
    /\ heads = (RaceBranch :> 3)
    /\ history = <<{1}, {1, 2}, {1, 2, 3}>>
    /\ nevents = 0
    /\ last = NoInvocation
    /\ run = NoRun
    /\ rejected = FALSE
    /\ listing = <<>>
    /\ answer = NoAnswer
    /\ env = NoEnv
    /\ procs = [p \in Runs |-> Started(p, FALSE, <<>>)]

RaceVersion == parse_branch(RaceBranch, inputs.release_prefix)

\* existing_tag = _commit_has_version_tag(api, context.sha, tag_prefix): the
\* run's first listing
Guard(p) ==
    /\ procs[p].pc = "guard"
    /\ \E existing_tag \in commit_has_version_tag(tags, procs[p].sha, inputs.tag_prefix) :
         procs' = [procs EXCEPT ![p] =
                      [@ EXCEPT !.loads = @ + 1, !.snapshot = tags,
                                !.pc = IF Len(existing_tag) > 0 THEN "done" ELSE "ga",
                                !.exit = IF Len(existing_tag) > 0 THEN "ok" ELSE "running"]]
    /\ UNCHANGED <<inputs, tags, heads, history, nevents, last, run, rejected, listing,
                   answer, env>>

\* ga_exists(api, major, minor, tag_prefix)
GaExists(p) ==
    /\ procs[p].pc = "ga"
    /\ procs' = [procs EXCEPT ![p] =
                    [@ EXCEPT !.ga = ga_exists(tags, RaceVersion[1], RaceVersion[2],
                                               inputs.tag_prefix),
                              !.pc = "latest"]]
    /\ UNCHANGED <<inputs, tags, heads, history, nevents, last, run, rejected, listing,
                   answer, env>>

\* get_next_patch_tag or get_next_rc_tag: the run's second listing
Latest(p) ==
    /\ procs[p].pc = "latest"
    /\ procs' = [procs EXCEPT ![p] =
                    [@ EXCEPT !.loads = @ + 1, !.latest = tags,
                              !.name = IF procs[p].ga
                                       THEN get_next_patch_tag(tags, RaceVersion[1],
                                                RaceVersion[2], inputs.tag_prefix)
                                       ELSE get_next_rc_tag(tags, RaceVersion[1],
                                                RaceVersion[2], inputs.tag_prefix),
                              !.pc = "create"]]
    /\ UNCHANGED <<inputs, tags, heads, history, nevents, last, run, rejected, listing,
                   answer, env>>

\* create_tag(api, tag_name, context.sha): a rejected creation raises and
\* ends the run
Create(p) ==
    /\ procs[p].pc = "create"
    /\ LET r == create_tag(ActionOutputs, tags, procs[p].name, procs[p].sha)
       IN  /\ tags' = r.tags
           /\ procs' = [procs EXCEPT ![p] =
                           [@ EXCEPT !.calls = r.calls,
                                     !.exit = IF r.exit # "ok" THEN "raised"
                                              ELSE IF procs[p].ga /\ inputs.aliases
                                              THEN "running" ELSE "ok",
                                     !.pc = IF r.exit = "ok" /\ procs[p].ga /\ inputs.aliases
                                            THEN "aliases" ELSE "done"]]
    /\ UNCHANGED <<inputs, heads, history, nevents, last, run, rejected, listing, answer, env>>

\* _update_aliases_with_skip_logic(api, tag_name, context.sha, inputs), with
\* its two listings
Aliases(p) ==
    /\ procs[p].pc = "aliases"
    /\ LET a == update_aliases_with_skip_logic(tags, procs[p].name, procs[p].sha, inputs)
       IN  /\ tags' = a.tags
           /\ procs' = [procs EXCEPT ![p] =
                           [@ EXCEPT !.loads = @ + 2, !.calls = @ \o a.calls,
                                     !.exit = IF a.ok THEN "ok" ELSE "raised",
                                     !.pc = "done"]]
    /\ UNCHANGED <<inputs, heads, history, nevents, last, run, rejected, listing, answer, env>>

\* the push event of a run whose create_tag was rejected is run again
Retry(p) ==
    /\ procs[p].pc = "done" /\ procs[p].exit = "raised" /\ ~procs[p].retry
    /\ procs' = [procs EXCEPT ![p] = Started(p, TRUE, procs[p].name)]
    /\ UNCHANGED <<inputs, tags, heads, history, nevents, last, run, rejected, listing,
                   answer, env>>

RaceNext ==
    \E p \in Runs :
        \/ Guard(p)
        \/ GaExists(p)
        \/ Latest(p)
        \/ Create(p)
        \/ Aliases(p)
        \/ Retry(p)

RaceSpec == RaceInit /\ [][RaceNext]_vars

(***************************************************************************)
(* The creation of a release branch.  GitHub fires a create event and a    *)
(* push event for the new branch's head commit; the run of                 *)
(* handle_branch_create (one collaborator call, its create_tag) and the    *)
(* run of handle_commit_push interleave at their calls of the collaborator.*)
(***************************************************************************)
\* the run of the push event and the run of the create event
PushRun == 1

CreateRun == 2

\* the tags the repository has when the branch of series 1.2 is created:
\* none of that series; tags of series 1.1 and 2.0, an alias and a tag
\* without version, at the commit the branch's head comes after
CreateRaceTags ==
    { <<>>,
      (RcName(DefaultTagPrefix, 1, 1, 1) :> 1),
      (RcName(DefaultTagPrefix, 1, 1, 1) :> 1) @@ (RcName(DefaultTagPrefix, 1, 1, 2) :> 1),
      (RcName(DefaultTagPrefix, 1, 1, 1) :> 1) @@ (ReleaseName(DefaultTagPrefix, 1, 1, 0) :> 1),
      (RcName(DefaultTagPrefix, 1, 1, 1) :> 1) @@ (ReleaseName(DefaultTagPrefix, 1, 1, 0) :> 1)
          @@ (DefaultTagPrefix \o str(1) :> 1),
      (RcName(DefaultTagPrefix, 2, 0, 1) :> 1),
      (<<"v", "x">> :> 1) }

CreateRaceInit ==
    /\ inputs \in { [dry_run |-> FALSE, aliases |-> a, release_prefix |-> DefaultReleasePrefix,
                     tag_prefix |-> DefaultTagPrefix] : a \in BOOLEAN }
    /\ tags \in CreateRaceTags
    /\ heads = (RaceBranch :> RunCommit(PushRun))
    /\ history = <<{1}, {1, 2}>>
    /\ nevents = 0
    /\ last = NoInvocation
    /\ run = NoRun
    /\ rejected = FALSE
    /\ listing = <<>>
    /\ answer = NoAnswer
    /\ env = NoEnv
    /\ procs = [p \in {PushRun, CreateRun} |->
                   IF p = PushRun THEN Started(PushRun, FALSE, <<>>)
                   ELSE [Started(PushRun, FALSE, <<>>) EXCEPT !.pc = "branch"]]

\* handle_branch_create(api, context, inputs) for the new branch
HandleBranchCreate(p) ==
    /\ procs[p].pc = "branch"
    /\ LET r == handle_branch_create(tags,
                    GitHubContext("create", RaceBranch, "branch", procs[p].sha), inputs)
       IN  /\ tags' = r.tags
           /\ procs' = [procs EXCEPT ![p] =
                           [@ EXCEPT !.name = r.out.tag, !.calls = r.calls,
                                     !.exit = r.exit, !.pc = "done"]]
    /\ UNCHANGED <<inputs, heads, history, nevents, last, run, rejected, listing, answer, env>>

CreateRaceNext ==
    \/ Guard(PushRun)
    \/ GaExists(PushRun)
    \/ Latest(PushRun)
    \/ Create(PushRun)
    \/ HandleBranchCreate(CreateRun)

CreateRaceSpec == CreateRaceInit /\ [][CreateRaceNext]_vars

(***************************************************************************)
(* Concurrent alias updates.  Two commits are pushed to the branch of a    *)
(* series that has its GA tag; each run of handle_commit_push creates its  *)
(* patch tag and goes through update_alias_tags call by call: for the      *)
(* minor and then the major alias, the listing of find_highest_*_version,  *)
(* the tag_exists of _update_or_create_alias, and its update_tag or        *)
(* create_tag.                                                             *)
(***************************************************************************)
\* the positions of a run in update_alias_tags, for the minor and for the
\* major alias: before the listing, before tag_exists, and in the branch of
\* _update_or_create_alias that tag_exists chose
AliasPc ==
    [minor |-> [highest |-> "aliases", exists |-> "minor_exists",
                update |-> "minor_update", create |-> "minor_create",
                after |-> "major_highest"],
     major |-> [highest |-> "major_highest", exists |-> "major_exists",
                update |-> "major_update", create |-> "major_create",
                after |-> "done"]]

\* minor_alias = f"{tag_prefix}{major}.{minor}", major_alias = f"{tag_prefix}{major}"
AliasName(which, parsed, tag_prefix) ==
    IF which = "minor" THEN tag_prefix \o str(parsed[1]) \o <<".">> \o str(parsed[2])
    ELSE tag_prefix \o str(parsed[1])

\* the series have their GA tag: with or without a patch, with or without
\* the aliases
AliasRaceTags ==
    { (RcName(DefaultTagPrefix, 1, 2, 1) :> 1) @@ (ReleaseName(DefaultTagPrefix, 1, 2, 0) :> 1),
      (ReleaseName(DefaultTagPrefix, 1, 2, 0) :> 1) @@ (ReleaseName(DefaultTagPrefix, 1, 2, 1) :> 1),
      (ReleaseName(DefaultTagPrefix, 1, 2, 0) :> 1) @@ (DefaultTagPrefix \o str(1) :> 1)
          @@ (BranchName(DefaultTagPrefix, 1, 2) :> 1) }

AliasRaceInit ==
    /\ inputs = [dry_run |-> FALSE, aliases |-> TRUE, release_prefix |-> DefaultReleasePrefix,
                 tag_prefix |-> DefaultTagPrefix]
    /\ tags \in AliasRaceTags
    /\ heads = (RaceBranch :> 3)
    /\ history = <<{1}, {1, 2}, {1, 2, 3}>>
    /\ nevents = 0
    /\ last = NoInvocation
    /\ run = NoRun
    /\ rejected = FALSE
    /\ listing = <<>>
    /\ answer = NoAnswer
    /\ env = NoEnv
    /\ procs = [p \in Runs |-> Started(p, FALSE, <<>>)]

\* highest = find_highest_minor_version(...) or find_highest_major_version(...)
\* and the test of the release against it; the minor alias is not looked at
\* when skip_minor_alias is set
AliasHighest(p, which) ==
    /\ procs[p].pc = AliasPc[which].highest
    /\ LET parsed == parse_release_tag(procs[p].name, inputs.tag_prefix)
           skip == /\ which = "minor"
                   /\ should_skip_minor_alias(inputs.release_prefix, inputs.tag_prefix)
           due == IF skip THEN FALSE
                  ELSE alias_is_due(parsed,
                           IF which = "minor"
                           THEN find_highest_minor_version(tags, parsed[1], parsed[2],
                                                           inputs.tag_prefix)
                           ELSE find_highest_major_version(tags, parsed[1],
                                                           inputs.tag_prefix))
           to == IF due THEN AliasPc[which].exists ELSE AliasPc[which].after
       IN  procs' = [procs EXCEPT ![p] =
                        [@ EXCEPT !.loads = IF skip THEN @ ELSE @ + 1,
                                  !.pc = to,
                                  !.exit = IF to = "done" THEN "ok" ELSE @]]
    /\ UNCHANGED <<inputs, tags, heads, history, nevents, last, run, rejected, listing,
                   answer, env>>

\* if api.tag_exists(alias_name)
AliasExists(p, which) ==
    /\ procs[p].pc = AliasPc[which].exists
    /\ procs' = [procs EXCEPT ![p] =
                    [@ EXCEPT !.pc =
                         IF tag_exists(tags, AliasName(which,
                                parse_release_tag(procs[p].name, inputs.tag_prefix),
                                inputs.tag_prefix))
                         THEN AliasPc[which].update ELSE AliasPc[which].create]]
    /\ UNCHANGED <<inputs, tags, heads, history, nevents, last, run, rejected, listing,
                   answer, env>>

\* api.update_tag(alias_name, commit_sha) or api.create_tag(alias_name,
\* commit_sha); a call the collaborator rejects raises and ends the run
AliasMutate(p, which) ==
    /\ procs[p].pc \in {AliasPc[which].update, AliasPc[which].create}
    /\ LET alias_name == AliasName(which,
                             parse_release_tag(procs[p].name, inputs.tag_prefix),
                             inputs.tag_prefix)
           op == IF procs[p].pc = AliasPc[which].update THEN "update_tag" ELSE "create_tag"
           r == IF op = "update_tag" THEN api_update_tag(tags, alias_name, procs[p].sha)
                ELSE api_create_tag(tags, alias_name, procs[p].sha)
           to == IF r.ok THEN AliasPc[which].after ELSE "done"
       IN  /\ tags' = r.tags
           /\ procs' = [procs EXCEPT ![p] =
                           [@ EXCEPT !.calls = @ \o <<Call(op, alias_name, procs[p].sha, r.ok)>>,
                                     !.pc = to,
                                     !.exit = IF ~r.ok THEN "raised"
                                              ELSE IF to = "done" THEN "ok" ELSE @]]
    /\ UNCHANGED <<inputs, heads, history, nevents, last, run, rejected, listing, answer, env>>

AliasRaceNext ==
    \E p \in Runs :
        \/ Guard(p)
        \/ GaExists(p)
        \/ Latest(p)
        \/ Create(p)
        \/ \E which \in {"minor", "major"} : AliasHighest(p, which)
        \/ \E which \in {"minor", "major"} : AliasExists(p, which)
        \/ \E which \in {"minor", "major"} : AliasMutate(p, which)

AliasRaceSpec == AliasRaceInit /\ [][AliasRaceNext]_vars

(***************************************************************************)
(* What the claims speak of, stated from the tags themselves.              *)
(***************************************************************************)
SetMax(S) == CHOOSE m \in S : \A x \in S : x <= m

\* the RC numbers of the series in the listing
RcNumbers(ts, major, minor, tag_prefix) ==
    { int(ReMatch(create_rc_pattern(tag_prefix), t)[3]) :
        t \in SeriesRcTags(ts, major, minor, tag_prefix) }

\* the patch numbers of the series in the listing, 0 for a GA tag
PatchNumbers(ts, major, minor, tag_prefix) ==
    { int(ReMatch(create_patch_pattern(tag_prefix), t)[3]) :
        t \in { u \in DOMAIN ts :
                  LET m == ReMatch(create_patch_pattern(tag_prefix), u) IN
                  m # None /\ int(m[1]) = major /\ int(m[2]) = minor } }

NumberAfter(S) == IF S = {} THEN 1 ELSE SetMax(S) + 1

\* the commit carries a tag that starts with the tag prefix
CarriesVersionTag(ts, sha, tag_prefix) ==
    \E t \in DOMAIN ts : ts[t] = sha /\ StartsWith(t, tag_prefix)

(***************************************************************************)
(* The claims.                                                             *)
(***************************************************************************)
\* C1: RC sequencing.  For a series without GA tag and without RC tags, N
\* successive commit-pushes to its branch, each on a commit that carries no
\* version tag, create exactly the tags X.Y.0-rc1, ..., X.Y.0-rcN, in that
\* order, and these are then the RC tags of the series.
C1_RcSequencing ==
    run.kind = "rc" =>
        \E major \in Majors, minor \in Minors :
            /\ run.branch = BranchName(inputs.release_prefix, major, minor)
            /\ run.created = [i \in 1..run.pushes |->
                                 RcName(inputs.tag_prefix, major, minor, i)]
            /\ SeriesRcTags(tags, major, minor, inputs.tag_prefix) =
                   { RcName(inputs.tag_prefix, major, minor, i) : i \in 1..run.pushes }

C1_Witness == run.kind = "rc" /\ run.pushes >= 3

\* C2: patch sequencing.  For a series with its GA tag and without patch
\* tags, N successive commit-pushes to its branch, each on a commit that
\* carries no version tag, create exactly X.Y.1, ..., X.Y.N, in that order.
C2_PatchSequencing ==
    run.kind = "patch" =>
        \E major \in Majors, minor \in Minors :
            /\ run.branch = BranchName(inputs.release_prefix, major, minor)
            /\ run.created = [i \in 1..run.pushes |->
                                 ReleaseName(inputs.tag_prefix, major, minor, i)]
            /\ SeriesPatchTags(tags, major, minor, inputs.tag_prefix) =
                   { ReleaseName(inputs.tag_prefix, major, minor, i) : i \in 1..run.pushes }

C2_Witness == run.kind = "patch" /\ run.pushes >= 2

\* C3: commit-push decision.  A commit-push to release branch X.Y whose
\* commit carries no version tag returns with type patch and the next patch
\* tag exactly when the GA tag of X.Y exists, and otherwise with type rc and
\* the next RC tag; it asks for the creation of that tag at the commit
\* (nothing in dry-run mode), and on the RC path for nothing else.
C3_Decision(major, minor) ==
    LET ga == ReleaseName(inputs.tag_prefix, major, minor, 0) \in DOMAIN tags
        next_patch == ReleaseName(inputs.tag_prefix, major, minor,
                          NumberAfter(PatchNumbers(tags, major, minor, inputs.tag_prefix)))
        next_rc == RcName(inputs.tag_prefix, major, minor,
                          NumberAfter(RcNumbers(tags, major, minor, inputs.tag_prefix)))
    IN  /\ last'.exit = "ok"
        /\ last'.out.major = str(major) /\ last'.out.minor = str(minor)
        /\ (last'.out.tag_type = "patch") <=> ga
        /\ ga => last'.out.tag = next_patch
        /\ ~ga => last'.out.tag_type = "rc" /\ last'.out.tag = next_rc
        /\ inputs.dry_run => last'.calls = <<>>
        /\ ~inputs.dry_run =>
              /\ Len(last'.calls) >= 1
              /\ last'.calls[1] = Call("create_tag", last'.out.tag, last'.sha, TRUE)
              /\ ~ga => Len(last'.calls) = 1

C3_CommitPushDecision ==
    [][ (last'.event = "push" /\ nevents' = nevents + 1) =>
            \A major \in Majors, minor \in Minors :
                (/\ last'.ref = BranchName(inputs.release_prefix, major, minor)
                 /\ ~CarriesVersionTag(tags, last'.sha, inputs.tag_prefix))
                => C3_Decision(major, minor) ]_vars

C3_Witness ==
    /\ last.event = "push" /\ last.out.tag_type = "patch"
    /\ Len(last.calls) >= 1
    /\ \E t \in DOMAIN tags : is_rc_tag(t, inputs.tag_prefix)

\* C4: GA is never auto-generated.  No branch-create, commit-push or
\* workflow-dispatch invocation asks for the creation of a GA tag or reports
\* one as the tag it would create, and a GA tag that enters the repository
\* enters it with a manual tag push of that tag.
C4_NoGaRequested ==
    last.event \in {"create", "push", "dispatch"} =>
        /\ \A i \in 1..Len(last.calls) : ~is_ga_tag(last.calls[i].name, inputs.tag_prefix)
        /\ last.out.tag_type # "skipped" => ~is_ga_tag(last.out.tag, inputs.tag_prefix)

C4_GaOnlyByTagPush ==
    [][ \A t \in (DOMAIN tags') \ (DOMAIN tags) :
            is_ga_tag(t, inputs.tag_prefix) => (last'.event = "tag" /\ last'.ref = t) ]_vars

C4_GaNeverAutoGenerated == []C4_NoGaRequested /\ C4_GaOnlyByTagPush

C4_Witness ==
    /\ last.event \in {"push", "dispatch"} /\ last.out.tag_type = "patch"
    /\ Len(last.calls) >= 1
    /\ ga_exists(tags, 1, 2, inputs.tag_prefix)

\* the release tags an invocation asked for and the collaborator created
CreatedNames(calls) ==
    { CreatedTags(calls)[i].name : i \in 1..Len(CreatedTags(calls)) }

IsSeriesRcName(name, major, minor, tag_prefix) ==
    LET m == ReMatch(create_rc_pattern(tag_prefix), name) IN
    m # None /\ int(m[1]) = major /\ int(m[2]) = minor

\* C5: series ordering.  Once the GA tag of a series exists, no later event
\* the tool handles creates an RC tag of that series.
C5_NoRcAfterGa ==
    [][ \A major \in Majors, minor \in Minors :
            (/\ nevents' = nevents + 1
             /\ ReleaseName(inputs.tag_prefix, major, minor, 0) \in DOMAIN tags)
            => \A name \in CreatedNames(last'.calls) :
                   ~IsSeriesRcName(name, major, minor, inputs.tag_prefix) ]_vars

\* C6: branch-create.  The creation of a branch named for series X.Y asks
\* for exactly the tag X.Y.0-rc1 at the event's commit, whatever the tags
\* of the repository are (in dry-run mode it asks for nothing), and returns
\* with that tag, type rc, major X and minor Y.
C6_BranchCreate ==
    \A major \in Majors, minor \in Minors :
        (/\ last.event = "create"
         /\ last.ref = BranchName(inputs.release_prefix, major, minor))
        => /\ last.calls = IF inputs.dry_run THEN <<>>
                           ELSE <<Call("create_tag",
                                       RcName(inputs.tag_prefix, major, minor, 1),
                                       last.sha, last.calls[1].ok)>>
           /\ last.exit = "ok"
           /\ last.out = [tag |-> RcName(inputs.tag_prefix, major, minor, 1),
                          tag_type |-> "rc", major |-> str(major), minor |-> str(minor)]

\* the tags on the commit that start with the tag prefix
VersionTagsOn(ts, sha, tag_prefix) ==
    { t \in DOMAIN ts : ts[t] = sha /\ StartsWith(t, tag_prefix) }

C7_Skipped ==
    /\ last'.calls = <<>>
    /\ last'.exit = "ok"
    /\ last'.out.tag_type = "skipped"
    /\ last'.out.tag \in VersionTagsOn(tags, last'.sha, inputs.tag_prefix)

\* C7 as stated: a commit-push or dispatch invocation whose commit already
\* carries a tag under the tag prefix asks for no tag creation and no alias
\* mutation, and returns that tag with type skipped.
C7_DuplicateGuardAnyBranch ==
    [][ (/\ last'.event \in {"push", "dispatch"} /\ nevents' = nevents + 1
         /\ CarriesVersionTag(tags, last'.sha, inputs.tag_prefix))
        => C7_Skipped ]_vars

\* the branch a commit-push or dispatch invocation resolves
TargetBranch(invocation) ==
    IF invocation.event = "dispatch" /\ invocation.target # <<>>
    THEN invocation.target ELSE invocation.ref

\* C7: duplicate-tag guard.  A commit-push or dispatch invocation for a
\* branch that matches the release-branch grammar and whose commit already
\* carries a tag under the tag prefix asks for no tag creation and no alias
\* mutation, and returns a tag of that commit with type skipped.
C7_DuplicateGuard ==
    [][ (/\ last'.event \in {"push", "dispatch"} /\ nevents' = nevents + 1
         /\ parse_branch(TargetBranch(last'), inputs.release_prefix) # None
         /\ CarriesVersionTag(tags, last'.sha, inputs.tag_prefix))
        => C7_Skipped ]_vars

C7_Witness ==
    /\ last.event = "dispatch" /\ last.out.tag_type = "skipped"
    /\ last.out.tag # <<>>
    /\ ga_exists(tags, 1, 2, inputs.tag_prefix)
    /\ ~inputs.dry_run

IsReleaseName(name, tag_prefix) ==
    is_rc_tag(name, tag_prefix) \/ parse_release_tag(name, tag_prefix) # None

\* the step handles the event of the invocation before it once more: same
\* kind, ref, commit and target, on an unchanged set of branches
IsRerun ==
    /\ nevents' = nevents + 1
    /\ last.event # "none"
    /\ last'.event = last.event /\ last'.ref = last.ref
    /\ last'.sha = last.sha /\ last'.target = last.target
    /\ heads' = heads /\ history' = history

\* C8: re-run idempotence.  Handling the same event on the same input once
\* more, after the first run returned, creates no release tag and asks for
\* the creation of none.
C8_RerunIdempotent ==
    [][ (IsRerun /\ last.exit = "ok")
        => \A i \in 1..Len(last'.calls) :
               last'.calls[i].op = "create_tag"
               => ~IsReleaseName(last'.calls[i].name, inputs.tag_prefix) ]_vars

\* the same of the three kinds of event other than branch-create, whatever
\* the exit of the first run
C8_RerunIdempotentButCreate ==
    [][ (IsRerun /\ last.event # "create")
        => \A i \in 1..Len(last'.calls) :
               last'.calls[i].op = "create_tag"
               => ~IsReleaseName(last'.calls[i].name, inputs.tag_prefix) ]_vars

ReleaseTagsOfMajor(ts, major, tag_prefix) ==
    { t \in DOMAIN ts : /\ parse_release_tag(t, tag_prefix) # None
                        /\ parse_release_tag(t, tag_prefix)[1] = major }

ReleaseTagsOfMinor(ts, major, minor, tag_prefix) ==
    { t \in ReleaseTagsOfMajor(ts, major, tag_prefix) :
        parse_release_tag(t, tag_prefix)[2] = minor }

\* the tags of the set with the highest version
HighestTags(S, tag_prefix) ==
    { t \in S : \A u \in S : TupleGE(parse_release_tag(t, tag_prefix),
                                     parse_release_tag(u, tag_prefix)) }

AliasPointsAtHighest(ts, alias, S, tag_prefix) ==
    alias \in DOMAIN ts => \E t \in HighestTags(S, tag_prefix) : ts[alias] = ts[t]

ListedReleases ==
    { parse_release_tag(listing[i].name, inputs.tag_prefix) :
        i \in { j \in DOMAIN listing :
                  /\ ~is_rc_tag(listing[j].name, inputs.tag_prefix)
                  /\ parse_release_tag(listing[j].name, inputs.tag_prefix) # None } }

IsHighestOf(result, S) ==
    IF S = {} THEN result = None
    ELSE result \in S /\ \A u \in S : TupleGE(result, u)

\* C10: highest-in-series.  For every tag listing and every major,
\* find_highest_major_version answers the version of the GA and patch tags
\* of that major with the highest (minor, patch), and for every major.minor
\* find_highest_minor_version the one of that series with the highest
\* patch; release candidates and the tags of other series do not count, and
\* the answer is None exactly when the series has no GA or patch tag.
C10_HighestInSeries ==
    /\ answer.asked = "major" =>
           IsHighestOf(answer.result, { v \in ListedReleases : v[1] = answer.major })
    /\ answer.asked = "minor" =>
           IsHighestOf(answer.result, { v \in ListedReleases :
                                          v[1] = answer.major /\ v[2] = answer.minor })

C10_Witness ==
    /\ answer.asked = "major" /\ answer.major = 1
    /\ answer.result = <<1, 2, 1>>
    /\ Len(listing) = 3
    /\ listing[1].name = ReleaseName(DefaultTagPrefix, 1, 2, 1)
    /\ listing[2].name = RcName(DefaultTagPrefix, 1, 3, 2)
    /\ listing[3].name = ReleaseName(DefaultTagPrefix, 2, 0, 1)

\* the invocation's calls that created or moved the tag
Mutates(calls, name) ==
    \E i \in 1..Len(calls) :
        calls[i].name = name /\ calls[i].ok /\ calls[i].op \in {"create_tag", "update_tag"}

\* the version update_alias_tags was asked about
AnswerVersion == parse_release_tag(answer.tag, inputs.tag_prefix)

AnswerMajorAlias == inputs.tag_prefix \o str(AnswerVersion[1])

AnswerMinorAlias == BranchName(inputs.tag_prefix, AnswerVersion[1], AnswerVersion[2])

\* update_alias_tags was asked about a GA or patch tag
AnswersRelease ==
    answer.asked = "update" /\ ~is_rc_tag(answer.tag, inputs.tag_prefix) /\ AnswerVersion # None

C12_ResolverAgreement ==
    AnswersRelease =>
        /\ answer.result.result.major = answer.should.major
        /\ Mutates(answer.result.calls, AnswerMajorAlias) = answer.should.major
        /\ ~answer.skip =>
              /\ answer.result.result.minor = answer.should.minor
              /\ Mutates(answer.result.calls, AnswerMinorAlias) = answer.should.minor

\* the name is that of a major alias or of a minor alias
IsAliasName(name, tag_prefix) ==
    \/ ReMatch(re_escape(tag_prefix) \o <<Digits1>>, name) # None
    \/ ReMatch(re_escape(tag_prefix) \o <<Digits1, Lit("."), Digits1>>, name) # None

\* the aliases the step created or moved
AliasesTouched ==
    { n \in DOMAIN tags' :
        /\ IsAliasName(n, inputs.tag_prefix)
        /\ (n \notin DOMAIN tags \/ tags'[n] # tags[n]) }

\* the invocation of the step asked for the creation or the move of an alias
AliasCalls(calls) ==
    { i \in 1..Len(calls) :
        calls[i].op = "update_tag" \/ IsAliasName(calls[i].name, inputs.tag_prefix) }

C13_Gated ==
    [][ (AliasesTouched # {} \/ AliasCalls(last'.calls) # {})
        => /\ inputs.aliases
           /\ last'.out.tag_type \in {"ga", "patch"}
           /\ ~is_rc_tag(last'.out.tag, inputs.tag_prefix)
           /\ \/ is_ga_tag(last'.out.tag, inputs.tag_prefix)
              \/ is_patch_tag(last'.out.tag, inputs.tag_prefix) ]_vars

C13_RcReleases ==
    \A t \in DOMAIN tags, skip \in BOOLEAN :
        is_rc_tag(t, inputs.tag_prefix) =>
            LET r == update_alias_tags(tags, t, tags[t], inputs.tag_prefix, skip) IN
            /\ r.calls = <<>> /\ r.tags = tags
            /\ r.result = [major |-> FALSE, minor |-> FALSE]

\* C13: alias mutations are gated.  An alias is created or moved, and an
\* alias call made, only by an invocation with aliases enabled whose release
\* tag is a GA or a patch tag; update_alias_tags for an RC tag of the
\* repository makes no call and answers major false, minor false; with
\* aliases disabled no alias is created or moved.
C13_AliasMutationsGated == C13_Gated /\ []C13_RcReleases

C13_Witness ==
    /\ last.event = "tag" /\ last.out.tag_type = "ga"
    /\ Len(last.calls) = 2
    /\ \E t \in DOMAIN tags : is_rc_tag(t, inputs.tag_prefix) /\ tags[t] = last.sha

IsMinorAliasName(name, tag_prefix) ==
    ReMatch(re_escape(tag_prefix) \o <<Digits1, Lit("."), Digits1>>, name) # None

\* the last invocation returned having released a GA or patch tag with the
\* aliases enabled and dry-run off
LastReleased ==
    /\ inputs.aliases /\ ~inputs.dry_run
    /\ last.exit = "ok" /\ last.out.tag_type \in {"ga", "patch"}

LastVersion == parse_release_tag(last.out.tag, inputs.tag_prefix)

\* the release of the last invocation is no lower than any release of the set
LastIsHighestOf(S) ==
    \A t \in S : TupleGE(LastVersion, parse_release_tag(t, inputs.tag_prefix))

C14_Skipped ==
    /\ should_skip_minor_alias(inputs.release_prefix, inputs.tag_prefix)
    /\ \A n \in DOMAIN tags : ~IsMinorAliasName(n, inputs.tag_prefix)
    /\ \A i \in 1..Len(last.calls) : ~IsMinorAliasName(last.calls[i].name, inputs.tag_prefix)
    /\ \A t \in DOMAIN tags :
           LET r == update_alias_tags(tags, t, tags[t], inputs.tag_prefix,
                        should_skip_minor_alias(inputs.release_prefix, inputs.tag_prefix))
           IN  ~r.result.minor
    /\ (LastReleased /\ LastIsHighestOf(ReleaseTagsOfMajor(tags, LastVersion[1],
                                                            inputs.tag_prefix)))
       => /\ Mutates(last.calls, inputs.tag_prefix \o str(LastVersion[1]))
          /\ tags[inputs.tag_prefix \o str(LastVersion[1])] = last.sha

C14_NotSkipped ==
    /\ ~should_skip_minor_alias(inputs.release_prefix, inputs.tag_prefix)
    /\ (LastReleased /\ LastIsHighestOf(ReleaseTagsOfMinor(tags, LastVersion[1], LastVersion[2],
                                                            inputs.tag_prefix)))
       => /\ Mutates(last.calls, BranchName(inputs.tag_prefix, LastVersion[1], LastVersion[2]))
          /\ tags[BranchName(inputs.tag_prefix, LastVersion[1], LastVersion[2])] = last.sha

\* C14: skip-minor-alias rule.  The minor alias is skipped exactly when
\* release_prefix and tag_prefix are equal.  Then no tag named as a minor
\* alias is in the repository, no invocation asks for one, update_alias_tags
\* answers minor false, and a release that is the highest of its major
\* still creates or moves the major alias.  With different prefixes a
\* release that is the highest of its series creates or moves the minor
\* alias.
C14_SkipMinorAlias ==
    IF inputs.release_prefix = inputs.tag_prefix THEN C14_Skipped ELSE C14_NotSkipped

C14_Witness ==
    /\ inputs.release_prefix = inputs.tag_prefix
    /\ LastReleased /\ last.event = "push" /\ last.out.tag_type = "patch"
    /\ Len(last.calls) = 2
    /\ last.calls[2].name = inputs.tag_prefix \o str(1)

\* what an invocation reports: its exit, and its outputs when it returned
Reported(r) == [exit |-> r.exit, out |-> IF r.exit = "ok" THEN r.out ELSE ActionOutputs]

\* the handler of the step's event run with dry-run off on the repository
\* the step's invocation found
WetInputs == [inputs EXCEPT !.dry_run = FALSE]

WetRuns ==
    IF last'.event = "create"
    THEN { handle_branch_create(tags, GitHubContext("create", last'.ref, "branch", last'.sha),
                                WetInputs) }
    ELSE IF last'.event = "push"
    THEN { handle_commit_push(tags, GitHubContext("push", last'.ref, "branch", last'.sha),
                              WetInputs, <<>>, e) :
             e \in commit_has_version_tag(tags, last'.sha, inputs.tag_prefix) }
    ELSE IF last'.event = "tag"
    THEN { handle_tag_push(tags', heads, history,
                           GitHubContext("push", last'.ref, "tag", last'.sha), WetInputs) }
    ELSE { handle_workflow_dispatch(tags,
               GitHubContext("workflow_dispatch", last'.ref, "branch", last'.sha),
               WetInputs, last'.target, e) :
             e \in commit_has_version_tag(tags, last'.sha, inputs.tag_prefix) }

\* the step left the tags alone, but for the tag a manual push brought
TagsKept ==
    /\ \A n \in DOMAIN tags : n \in DOMAIN tags' /\ tags'[n] = tags[n]
    /\ \A n \in DOMAIN tags' \ DOMAIN tags : last'.event = "tag" /\ last'.ref = n

\* C15: dry-run.  In dry-run mode no handler makes a create_tag or
\* update_tag call and the tags stay as they are, and what the invocation
\* reports is what the same handler reports with dry-run off on the same
\* repository.
C15_DryRun ==
    [][ (inputs.dry_run /\ nevents' = nevents + 1)
        => /\ last'.calls = <<>>
           /\ TagsKept
           /\ \E w \in WetRuns : Reported(w) = Reported(last') ]_vars

\* the same, but for the creation of a branch whose rc1 tag exists
C15_DryRunButCreate ==
    [][ (/\ inputs.dry_run /\ nevents' = nevents + 1
         /\ ~(/\ last'.event = "create"
              /\ \E major \in Majors, minor \in Minors :
                    /\ last'.ref = BranchName(inputs.release_prefix, major, minor)
                    /\ RcName(inputs.tag_prefix, major, minor, 1) \in DOMAIN tags))
        => /\ last'.calls = <<>>
           /\ TagsKept
           /\ \E w \in WetRuns : Reported(w) = Reported(last') ]_vars

\* the tag name is an RC, GA or patch tag of the series
IsOfSeries(name, major, minor, tag_prefix) ==
    \/ IsSeriesRcName(name, major, minor, tag_prefix)
    \/ /\ parse_release_tag(name, tag_prefix) # None
       /\ parse_release_tag(name, tag_prefix)[1] = major
       /\ parse_release_tag(name, tag_prefix)[2] = minor

\* the commit is on the branch; a branch that does not exist has no commits
IsOnBranch(sha, branch) == branch \in DOMAIN heads /\ sha \in history[heads[branch]]

\* C16: manual tag reachability.  The push of a tag that matches the tag
\* grammar, at a commit that is not among the commits of the release branch
\* of the tag's series (or whose branch does not exist, so that fetching its
\* commits raises), ends in exit 1 with no tag created and no alias touched.
C16_UnreachableTagIsFatal ==
    [][ (last'.event = "tag" /\ nevents' = nevents + 1)
        => \A major \in Majors, minor \in Minors :
               (/\ IsOfSeries(last'.ref, major, minor, inputs.tag_prefix)
                /\ ~IsOnBranch(last'.sha, BranchName(inputs.release_prefix, major, minor)))
               => /\ last'.exit = "exit1"
                  /\ last'.calls = <<>>
                  /\ TagsKept ]_vars

C16_Witness ==
    /\ last.event = "tag" /\ last.exit = "exit1"
    /\ last.ref = ReleaseName(inputs.tag_prefix, 1, 2, 1)
    /\ BranchName(inputs.release_prefix, 1, 2) \in DOMAIN heads
    /\ inputs.aliases /\ ~inputs.dry_run
    /\ inputs.tag_prefix \o str(1) \in DOMAIN tags


\* exactly one of three
ExactlyOne(a, b, c) == (a \/ b \/ c) /\ ~(a /\ b) /\ ~(a /\ c) /\ ~(b /\ c)

\* the patch number a GA or patch tag name is written with, None for any
\* other name
PatchNumberOf(name, tag_prefix) ==
    IF parse_release_tag(name, tag_prefix) = None THEN None
    ELSE <<parse_release_tag(name, tag_prefix)[3]>>

\* C17: tag classification.  A pushed tag name that matches the tag grammar
\* of the configured prefix is exactly one of an RC tag, a GA tag and a
\* patch tag; it is a GA tag when its patch number is 0 and it is no RC
\* tag, a patch tag when its patch number is above 0; and a tag push that
\* is validated reports type rc, ga or patch as the tag is an RC, a GA or a
\* patch tag.
C17_TagClassification ==
    [][ (/\ last'.event = "tag" /\ nevents' = nevents + 1
         /\ parse_tag_version(last'.ref, inputs.tag_prefix) # None)
        => /\ ExactlyOne(is_rc_tag(last'.ref, inputs.tag_prefix),
                         is_ga_tag(last'.ref, inputs.tag_prefix),
                         is_patch_tag(last'.ref, inputs.tag_prefix))
           /\ is_ga_tag(last'.ref, inputs.tag_prefix)
                  <=> PatchNumberOf(last'.ref, inputs.tag_prefix) = <<0>>
           /\ is_patch_tag(last'.ref, inputs.tag_prefix)
                  <=> /\ PatchNumberOf(last'.ref, inputs.tag_prefix) # None
                      /\ PatchNumberOf(last'.ref, inputs.tag_prefix) # <<0>>
           /\ last'.exit = "ok"
                  => /\ last'.out.tag_type \in {"rc", "ga", "patch"}
                     /\ last'.out.tag_type = "rc"
                            <=> is_rc_tag(last'.ref, inputs.tag_prefix)
                     /\ last'.out.tag_type = "ga"
                            <=> is_ga_tag(last'.ref, inputs.tag_prefix)
                     /\ last'.out.tag_type = "patch"
                            <=> is_patch_tag(last'.ref, inputs.tag_prefix) ]_vars

\* a validated push of a patch tag to a repository that holds an RC tag and
\* the GA tag of its series
C17_Witness ==
    /\ last.event = "tag" /\ last.exit = "ok"
    /\ last.ref = ReleaseName(inputs.tag_prefix, 1, 2, 1)
    /\ last.out.tag_type = "patch"
    /\ RcName(inputs.tag_prefix, 1, 2, 1) \in DOMAIN tags
    /\ ReleaseName(inputs.tag_prefix, 1, 2, 0) \in DOMAIN tags

\* what a commit-push of sha to branch answers in the repository as it is,
\* one answer for each tag of the commit the duplicate guard may find
PushAnswers(branch, sha) ==
    { handle_commit_push(tags, GitHubContext("push", branch, "branch", sha), inputs,
                         <<>>, existing_tag) :
        existing_tag \in commit_has_version_tag(tags, sha, inputs.tag_prefix) }

\* C18: dispatch delegation.  A dispatch whose resolved branch (the
\* target-branch input, the event's branch when the input is empty) matches
\* the release-branch grammar ends as a commit-push of the same commit to
\* that branch in the same repository ends: the same outputs, the same
\* calls, the same tags afterwards.
C18_DispatchDelegation ==
    [][ (/\ last'.event = "dispatch" /\ nevents' = nevents + 1
         /\ parse_branch(TargetBranch(last'), inputs.release_prefix) # None)
        => \E r \in PushAnswers(TargetBranch(last'), last'.sha) :
               /\ last'.exit = r.exit
               /\ last'.out = r.out
               /\ last'.calls = r.calls
               /\ tags' = r.tags ]_vars

\* a dispatch on one release branch for another one that creates a tag
C18_Witness ==
    /\ last.event = "dispatch" /\ last.exit = "ok"
    /\ last.target # <<>> /\ last.target # last.ref
    /\ parse_branch(last.ref, inputs.release_prefix) # None
    /\ parse_branch(last.target, inputs.release_prefix) # None
    /\ Len(CreatedTags(last.calls)) > 0

\* the name the invocation is about does not match the configured grammar:
\* the tag name of a tag push, the resolved branch of any other event
IsMismatch(invocation) ==
    IF invocation.event = "tag"
    THEN parse_tag_version(invocation.ref, inputs.tag_prefix) = None
    ELSE parse_branch(TargetBranch(invocation), inputs.release_prefix) = None

\* the invocation is the push of a tag that matches the grammar at a commit
\* that is not on the release branch of the tag's series
IsUnreachableTag(invocation) ==
    /\ invocation.event = "tag"
    /\ parse_tag_version(invocation.ref, inputs.tag_prefix) # None
    /\ ~IsOnBranch(invocation.sha,
                   BranchName(inputs.release_prefix,
                              parse_tag_version(invocation.ref, inputs.tag_prefix)[1],
                              parse_tag_version(invocation.ref, inputs.tag_prefix)[2]))

\* the invocation ends normally, asks for nothing and reports skipped
EndsSkipped ==
    /\ last'.exit = "ok"
    /\ last'.calls = <<>>
    /\ last'.out.tag_type = "skipped"
    /\ TagsKept

\* C19 as stated: input mismatch is not an error.  For every trigger kind
\* an invocation about a name that does not match the grammar ends normally
\* with no call and type skipped, and a handler exits 1 only for an
\* unreachable manual tag.
C19_MismatchNeverFails ==
    [][ nevents' = nevents + 1
        => /\ IsMismatch(last') => EndsSkipped
           /\ last'.exit = "exit1" => IsUnreachableTag(last') ]_vars

\* C19: input mismatch on an event of the repository is not an error.  A
\* branch creation, a commit push or a tag push about a name that does not
\* match the grammar ends normally with no call, empty outputs and type
\* skipped; an invocation exits 1 only for an unreachable manual tag or for
\* a dispatch whose resolved branch does not match the grammar; and it ends
\* in an exception only when a collaborator call it made failed.
C19_MismatchIsNoError ==
    [][ nevents' = nevents + 1
        => /\ (IsMismatch(last') /\ last'.event # "dispatch")
                  => (EndsSkipped /\ last'.out = ActionOutputs)
           /\ last'.exit = "exit1"
                  => \/ IsUnreachableTag(last')
                     \/ last'.event = "dispatch" /\ IsMismatch(last')
           /\ last'.exit = "raised"
                  => \E i \in 1..Len(last'.calls) : ~last'.calls[i].ok ]_vars

\* the push of a tag of another prefix to a repository that has release
\* branches and tags, ending normally as skipped
C19_Witness ==
    /\ last.event = "tag" /\ last.exit = "ok"
    /\ last.ref = ReleaseName(<<"w">>, 1, 2, 0)
    /\ last.out = ActionOutputs
    /\ BranchName(inputs.release_prefix, 1, 2) \in DOMAIN heads
    /\ \E n \in DOMAIN tags : n # last.ref

\* C20: dispatch precondition.  A dispatch whose resolved branch (the
\* target-branch input, the event's branch when the input is empty) does
\* not match the release-branch grammar exits 1, makes no create_tag or
\* update_tag call and leaves the tags as they are.
C20_DispatchPrecondition ==
    [][ (/\ last'.event = "dispatch" /\ nevents' = nevents + 1
         /\ parse_branch(TargetBranch(last'), inputs.release_prefix) = None)
        => /\ last'.exit = "exit1"
           /\ last'.calls = <<>>
           /\ tags' = tags ]_vars

\* a dispatch on a release branch that has tags, with a target-branch input
\* that is no release branch, in a configuration that creates tags
C20_Witness ==
    /\ last.event = "dispatch" /\ last.exit = "exit1"
    /\ last.target # <<>>
    /\ parse_branch(last.target, inputs.release_prefix) = None
    /\ parse_branch(last.ref, inputs.release_prefix) # None
    /\ ~inputs.dry_run
    /\ DOMAIN tags # {}

\* the prefix is empty or holds a text no git reference may hold
IsBadPrefix(prefix) ==
    \/ prefix = <<>>
    \/ \E i, j \in 1..Len(prefix) :
           SubSeq(prefix, i, j) \in { <<".", ".">>, <<"~">>, <<"^">>, <<":">>, <<"\\">>,
                                      <<" ">>, <<"\t">>, <<"\n">>, <<"*">>, <<"?">>, <<"[">> }

\* the environment holds a bad release or tag prefix, or no token
BadConfiguration ==
    \/ IsBadPrefix(env.INPUT_RELEASE_PREFIX)
    \/ IsBadPrefix(env.INPUT_TAG_PREFIX)
    \/ env.INPUT_TOKEN = <<>>

\* C21: configuration errors come first.  With an empty or invalid release
\* prefix or tag prefix, or without a token, main() exits 1 before the
\* GitHubAPI object exists, so that no handler runs and the collaborator is
\* asked nothing: no call is recorded and the tags stay as they are.
C21_ConfigurationFirst ==
    [][ (nevents' = nevents + 1 /\ BadConfiguration)
        => /\ last'.exit = "exit1"
           /\ last'.stage \in {"inputs", "token"}
           /\ ~last'.api
           /\ last'.calls = <<>>
           /\ \A n \in DOMAIN tags : n \in DOMAIN tags' /\ tags'[n] = tags[n]
           /\ \A n \in DOMAIN tags' \ DOMAIN tags : n = last'.ref ]_vars

\* a commit push to a release branch whose next tag is due, in an
\* environment with valid prefixes and no token
C21_Witness ==
    /\ env # NoEnv
    /\ env.INPUT_TOKEN = <<>> /\ ~env.INPUT_DRY_RUN
    /\ env.INPUT_RELEASE_PREFIX = DefaultReleasePrefix
    /\ env.INPUT_TAG_PREFIX = DefaultTagPrefix
    /\ env.GITHUB_REPOSITORY # <<>>
    /\ last.event = "push" /\ last.ref = BranchName(DefaultReleasePrefix, 1, 2)
    /\ last.sha = 2
    /\ last.exit = "exit1"
    /\ RcName(DefaultTagPrefix, 1, 2, 1) \in DOMAIN tags
    /\ RcName(DefaultTagPrefix, 1, 2, 2) \notin DOMAIN tags

\* C22: grammar round trip.  The name written as the configured prefix, the
\* major, a dot and the minor parses to exactly (major, minor); the same
\* name with a zero put in front of either numeral does not parse.
C22_GrammarRoundTrip ==
    (answer.asked = "parse_branch" /\ answer.written = inputs.release_prefix)
    => IF answer.zero_major \/ answer.zero_minor
       THEN answer.result = None
       ELSE answer.result = <<answer.major, answer.minor>>

\* a prefix that ends in a digit, and a zero in front of the major
C22_Witness ==
    /\ answer.asked = "parse_branch"
    /\ inputs.release_prefix = <<"v", "1">>
    /\ answer.written = <<"v", "1">>
    /\ answer.major = 2 /\ answer.zero_major /\ ~answer.zero_minor
    /\ answer.result = None

\* C23: prefix mismatch rejection.  A name written with a valid prefix
\* other than the configured one and that does not start with the
\* configured one, or with no prefix at all, does not parse.
C23_PrefixMismatchRejected ==
    (/\ answer.asked = "parse_branch"
     /\ ~answer.zero_major /\ ~answer.zero_minor
     /\ answer.written # inputs.release_prefix
     /\ ~StartsWith(answer.written, inputs.release_prefix))
    => answer.result = None

\* the alias names and commits the calls are about, in their order
CallTargets(calls) == [i \in 1..Len(calls) |-> <<calls[i].name, calls[i].sha>>]

\* C24: alias idempotence.  update_alias_tags called a second time for the
\* same release tag and commit makes its calls for the same alias names
\* with the same commit as the first time, answers the same major and minor
\* flags, and leaves every tag at the commit it had after the first call.
C24_AliasIdempotence ==
    answer.asked = "again" =>
        /\ CallTargets(answer.result.calls) = CallTargets(answer.first.calls)
        /\ \A i \in 1..Len(answer.result.calls) : answer.result.calls[i].ok
        /\ answer.result.result = answer.first.result
        /\ answer.result.tags = answer.first.tags

\* the highest release of its major and series, whose aliases the first call
\* created and the second one moved
C24_Witness ==
    /\ answer.asked = "again" /\ ~answer.skip
    /\ answer.tag = ReleaseName(DefaultTagPrefix, 1, 3, 0)
    /\ <<1, 2, 1>> \in ListedReleases /\ <<1, 3, 0>> \in ListedReleases
    /\ answer.first.result = [major |-> TRUE, minor |-> TRUE]
    /\ \A i \in 1..2 : answer.first.calls[i].op = "create_tag"
    /\ \A i \in 1..2 : answer.result.calls[i].op = "update_tag"
    /\ answer.result.tags[DefaultTagPrefix \o str(1)] = ReleaseCommit

\* the tags of the series alone: its RC, GA and patch tags
SeriesOnly(ts, major, minor, tag_prefix) ==
    [name \in { n \in DOMAIN ts : IsOfSeries(n, major, minor, tag_prefix) } |-> ts[name]]

\* the next RC tag, the next patch tag and the GA test of the series are
\* those of own, the tags of the series alone
NextOfSeriesAlone(ts, own, major, minor, tag_prefix) ==
    /\ get_next_rc_tag(ts, major, minor, tag_prefix)
           = get_next_rc_tag(own, major, minor, tag_prefix)
    /\ get_next_patch_tag(ts, major, minor, tag_prefix)
           = get_next_patch_tag(own, major, minor, tag_prefix)
    /\ ga_exists(ts, major, minor, tag_prefix) = ga_exists(own, major, minor, tag_prefix)

\* the release tag the invocation asked to create is the next tag of own
CreatesNextOf(calls, own, major, minor, tag_prefix) ==
    (Len(calls) > 0 /\ calls[1].op = "create_tag")
    => calls[1].name = IF ga_exists(own, major, minor, tag_prefix)
                       THEN get_next_patch_tag(own, major, minor, tag_prefix)
                       ELSE get_next_rc_tag(own, major, minor, tag_prefix)

\* the claim of series independence for the series of version
SeriesIndependent(version, calls) ==
    /\ NextOfSeriesAlone(tags, SeriesOnly(tags, version[1], version[2], inputs.tag_prefix),
                         version[1], version[2], inputs.tag_prefix)
    /\ CreatesNextOf(calls, SeriesOnly(tags, version[1], version[2], inputs.tag_prefix),
                     version[1], version[2], inputs.tag_prefix)

\* C25: series independence.  When a commit-push or a dispatch computes the
\* next tag of the series X.Y of its branch, the next RC tag and the next
\* patch tag are those computed from the RC, GA and patch tags of X.Y
\* alone, whatever tags the other series have; and the tag the invocation
\* creates is that one.
C25_SeriesIndependence ==
    [][ (/\ last'.event \in {"push", "dispatch"} /\ nevents' = nevents + 1
         /\ parse_branch(TargetBranch(last'), inputs.release_prefix) # None)
        => SeriesIndependent(parse_branch(TargetBranch(last'), inputs.release_prefix),
                             last'.calls) ]_vars

\* a push to the branch of 1.2 that creates rc2 while the series 1.1 has
\* its rc1 and rc2
C25_Witness ==
    /\ last.event = "push" /\ last.exit = "ok"
    /\ last.ref = BranchName(inputs.release_prefix, 1, 2)
    /\ Len(last.calls) > 0 /\ last.calls[1].name = RcName(inputs.tag_prefix, 1, 2, 2)
    /\ RcName(inputs.tag_prefix, 1, 1, 2) \in DOMAIN tags
    /\ tags[RcName(inputs.tag_prefix, 1, 1, 2)] # last.sha

\* the tag handle_commit_push asks for when every decision is taken on the
\* listing ts
NextTagOn(ts, version, tag_prefix) ==
    IF ga_exists(ts, version[1], version[2], tag_prefix)
    THEN get_next_patch_tag(ts, version[1], version[2], tag_prefix)
    ELSE get_next_rc_tag(ts, version[1], version[2], tag_prefix)

\* C26: single snapshot.  A run lists the tags once, and the tag it asks to
\* create is the one its first listing gives: the GA test and the next
\* number are taken on that listing, whatever another run created since.
C26_SingleSnapshot ==
    \A p \in DOMAIN procs :
        /\ procs[p].loads <= 1
        /\ procs[p].name # <<>>
               => procs[p].name = NextTagOn(procs[p].snapshot, RaceVersion, inputs.tag_prefix)

\* the same with the count of listings left out: what a run decides is what
\* its first listing gives
C26_DecidesOnFirstListing ==
    \A p \in DOMAIN procs :
        procs[p].name # <<>>
            => procs[p].name = NextTagOn(procs[p].snapshot, RaceVersion, inputs.tag_prefix)

\* the run asked for the creation of the tag it computed, with success or not
Requested(p) ==
    /\ Len(procs[p].calls) > 0
    /\ procs[p].calls[1].op = "create_tag"
    /\ procs[p].calls[1].name = procs[p].name
    /\ procs[p].calls[1].sha = procs[p].sha

Succeeded(p) == procs[p].calls[1].ok /\ tags[procs[p].name] = procs[p].sha

Failed(p) == ~procs[p].calls[1].ok /\ procs[p].exit = "raised" /\ procs[p].pc = "done"

\* the runs that created the tag of that name
CreatorsOf(name) ==
    { p \in DOMAIN procs :
        \E i \in 1..Len(procs[p].calls) :
            /\ procs[p].calls[i].op = "create_tag" /\ procs[p].calls[i].ok
            /\ procs[p].calls[i].name = name }

\* both runs are past their create_tag, neither is a run started again, and
\* the listings they computed the next tag from are the same
RacedOnOneListing ==
    /\ \A p \in DOMAIN procs : ~procs[p].retry /\ procs[p].pc \in {"aliases", "done"}
    /\ procs[1].latest = procs[2].latest

\* C27: the tag-creation race.  Two concurrent commit-push runs on one
\* series that computed the next tag from the same listing computed the
\* same name and both asked for its creation; one creation succeeded and
\* the tag is at that run's commit, the other was rejected and its run
\* ended in the collaborator's exception; and no tag name was ever created
\* by two runs.
C27_CreationRace ==
    /\ RacedOnOneListing
           => /\ procs[1].name = procs[2].name
              /\ Requested(1) /\ Requested(2)
              /\ \/ Succeeded(1) /\ Failed(2)
                 \/ Succeeded(2) /\ Failed(1)
    /\ \A name \in DOMAIN tags : Cardinality(CreatorsOf(name)) <= 1

\* the race for the second patch tag, won by the run of the later commit
C27_Witness ==
    /\ DOMAIN procs # {}
    /\ RacedOnOneListing
    /\ procs[1].name = ReleaseName(DefaultTagPrefix, 1, 2, 2)
    /\ Succeeded(2) /\ Failed(1)
    /\ inputs.aliases

\* name is the tag of the number after the one of the tag lost; the numbers of
\* a series without gaps never exceed the number of tags of the repository
IsNextAfter(name, lost, tag_prefix) ==
    \E n \in 0..Cardinality(DOMAIN tags) :
        \/ lost = RcName(tag_prefix, 1, 2, n) /\ name = RcName(tag_prefix, 1, 2, n + 1)
        \/ lost = ReleaseName(tag_prefix, 1, 2, n) /\ name = ReleaseName(tag_prefix, 1, 2, n + 1)

\* the RC numbers of the series are 1..N and its GA and patch numbers 0..M
NumbersWithoutGaps(ts, tag_prefix) ==
    /\ RcNumbers(ts, 1, 2, tag_prefix) = 1..Cardinality(SeriesRcTags(ts, 1, 2, tag_prefix))
    /\ PatchNumbers(ts, 1, 2, tag_prefix)
           = 0..(Cardinality(PatchNumbers(ts, 1, 2, tag_prefix)) - 1)
    /\ Cardinality(PatchNumbers(ts, 1, 2, tag_prefix))
           = Cardinality({ n \in DOMAIN ts : parse_release_tag(n, tag_prefix) # None })

\* C28: self-correction on retry.  The run of a commit-push that lost the
\* race for a tag, started again when the winner's tag is listed, creates
\* the tag of the next number after the winner's for its own commit, and
\* the RC numbers (the patch numbers) of the series are then 1..N with no
\* gap and no number twice.
C28_RetrySelfCorrects ==
    \A p \in DOMAIN procs :
        (procs[p].retry /\ procs[p].pc \in {"aliases", "done"})
        => /\ Requested(p)
           /\ procs[p].calls[1].ok
           /\ tags[procs[p].name] = procs[p].sha
           /\ IsNextAfter(procs[p].name, procs[p].lost, inputs.tag_prefix)
           /\ tags[procs[p].lost] = procs[3 - p].sha
           /\ NumbersWithoutGaps(tags, inputs.tag_prefix)

\* the run of the earlier commit lost the race for rc3 and created rc4 when
\* it was started again
C28_Witness ==
    /\ DOMAIN procs # {}
    /\ procs[1].retry /\ procs[1].pc = "done" /\ procs[1].exit = "ok"
    /\ procs[1].lost = RcName(DefaultTagPrefix, 1, 2, 3)
    /\ procs[1].name = RcName(DefaultTagPrefix, 1, 2, 4)
    /\ tags[RcName(DefaultTagPrefix, 1, 2, 3)] = 3
    /\ tags[RcName(DefaultTagPrefix, 1, 2, 4)] = 2

\* the call is the one mutation of its alias: it succeeded, it is a
\* force-move when the alias existed before the invocation and a creation
\* when it did not, it is for the invocation's commit, and the alias is at
\* that commit afterwards
IsTheAliasMutation(calls, i) ==
    /\ calls[i].ok
    /\ calls[i].op = IF calls[i].name \in DOMAIN tags THEN "update_tag" ELSE "create_tag"
    /\ calls[i].sha = last'.sha
    /\ \A j \in AliasCalls(calls) : calls[j].name = calls[i].name => j = i
    /\ calls[i].name \in DOMAIN tags' /\ tags'[calls[i].name] = last'.sha

\* C29: create versus force-move.  Every alias mutation of an invocation is
\* one collaborator call: create_tag when the alias name did not exist,
\* update_tag to the release's commit when it did; no create_tag is issued
\* for an alias that exists and no update_tag for one that does not.
C29_CreateOrForceMove ==
    [][ nevents' = nevents + 1
        => \A i \in AliasCalls(last'.calls) : IsTheAliasMutation(last'.calls, i) ]_vars

\* a release that moves its major alias and creates its minor alias
C29_Witness ==
    /\ last.exit = "ok" /\ Len(last.calls) >= 2
    /\ \E i, j \in 1..Len(last.calls) :
           /\ last.calls[i].op = "update_tag"
           /\ last.calls[i].name = inputs.tag_prefix \o str(1)
           /\ last.calls[j].op = "create_tag"
           /\ IsMinorAliasName(last.calls[j].name, inputs.tag_prefix)

\* the listing holds a tag that classifies as the GA tag of the series: its
\* major and minor are those of the series and its patch number is 0
ListsGaOf(ts, major, minor, tag_prefix) ==
    \E t \in DOMAIN ts :
        /\ is_ga_tag(t, tag_prefix)
        /\ parse_release_tag(t, tag_prefix) = <<major, minor, 0>>

\* C30: GA existence equivalence.  For every series X.Y, ga_exists is true
\* of the repository's tags exactly when they hold a tag that classifies as
\* GA (patch number 0) for series X.Y.
C30_GaExistsIffListed ==
    \A major \in Majors, minor \in Minors :
        ga_exists(tags, major, minor, inputs.tag_prefix)
            <=> ListsGaOf(tags, major, minor, inputs.tag_prefix)

\* the calls of run p that ask for the creation of its release tag
ReleaseCreations(p) ==
    { i \in 1..Len(procs[p].calls) :
        procs[p].calls[i].op = "create_tag" /\ procs[p].calls[i].name = procs[p].name }

\* C31: no retry, no suppression.  A commit-push invocation whose creation
\* of the release tag the collaborator rejected ends by that exception (it
\* reaches the caller), has asked for the creation once and has made no
\* other call, so no alias is created or moved after it; and no invocation
\* asks for the creation of its release tag twice.
C31_CreateFailurePropagates ==
    \A p \in Runs :
        /\ Cardinality(ReleaseCreations(p)) <= 1
        /\ (Len(procs[p].calls) >= 1 /\ ~procs[p].calls[1].ok) =>
               /\ procs[p].exit = "raised"
               /\ procs[p].pc = "done"
               /\ procs[p].calls
                      = <<Call("create_tag", procs[p].name, procs[p].sha, FALSE)>>
               /\ tags[procs[p].name] # procs[p].sha

\* the creation of a patch tag was rejected in a run that updates aliases
C31_Witness ==
    \E p \in Runs :
        /\ procs[p].ga /\ inputs.aliases
        /\ procs[p].pc = "done"
        /\ procs[p].calls = <<Call("create_tag", procs[p].name, procs[p].sha, FALSE)>>

\* the same of the handlers taken whole: a branch-create or commit-push
\* invocation with a rejected call ends by the exception, the rejected call
\* is its only call and the tags are as they were
C31_HandlerPropagates ==
    [][(last'.event \in {"create", "push"}
          /\ \E i \in 1..Len(last'.calls) : ~last'.calls[i].ok)
       => (last'.exit = "raised" /\ Len(last'.calls) = 1 /\ tags' = tags)]_vars


\* the series has a GA or patch tag, its latest patch number is the highest
\* of them, and the name is the one of the number after it
IsPatchAfterLatest(name, latest, numbers, major, minor, tag_prefix) ==
    /\ latest # None
    /\ numbers # {}
    /\ latest[1] >= 0
    /\ latest[1] = SetMax(numbers)
    /\ name = ReleaseName(tag_prefix, major, minor, latest[1] + 1)

\* C32: the patch precondition is enforced by the router.  Whenever a
\* commit-push or a dispatch takes the patch path, find_latest_patch on the
\* tags it ran on is a number >= 0 and not None (the GA tag counts as patch
\* 0), so increment_patch never takes its "no patch tags found" case there
\* and the patch tag named is the one after the highest GA or patch number
\* of the series.
C32_PatchPrecondition ==
    [][(/\ last'.event \in {"push", "dispatch"}
        /\ nevents' = nevents + 1
        /\ last'.out.tag_type = "patch")
       => IsPatchAfterLatest(last'.out.tag,
              find_latest_patch(tags, int(last'.out.major), int(last'.out.minor),
                                inputs.tag_prefix),
              PatchNumbers(tags, int(last'.out.major), int(last'.out.minor),
                           inputs.tag_prefix),
              int(last'.out.major), int(last'.out.minor), inputs.tag_prefix)]_vars

\* a commit-push created the first patch tag of a series that has its GA tag
\* and no patch tag: the latest patch found is 0
C32_Witness ==
    /\ last.event = "push" /\ last.out.tag_type = "patch" /\ last.exit = "ok"
    /\ last.out.tag = ReleaseName(inputs.tag_prefix, 1, 2, 1)
    /\ Len(last.calls) >= 1 /\ last.calls[1].ok
    /\ ReleaseName(inputs.tag_prefix, 1, 2, 0) \in DOMAIN tags


\* the version is no lower than that of any release tag of the set
IsNoLowerThan(version, S, tag_prefix) ==
    \A t \in S : TupleGE(version, parse_release_tag(t, tag_prefix))

\* the alias called for is the major or the minor alias of the version, and
\* the version is no lower than any release of the alias's series in ts
MovesUp(alias, version, ts, tag_prefix) ==
    IF IsMinorAliasName(alias, tag_prefix)
    THEN /\ alias = BranchName(tag_prefix, version[1], version[2])
         /\ IsNoLowerThan(version,
                ReleaseTagsOfMinor(ts, version[1], version[2], tag_prefix), tag_prefix)
    ELSE /\ alias = tag_prefix \o str(version[1])
         /\ IsNoLowerThan(version, ReleaseTagsOfMajor(ts, version[1], tag_prefix),
                          tag_prefix)

\* C33: alias monotonicity.  No event removes a tag from the repository, and
\* an invocation creates or moves the alias X (resp. X.Y) only for a release
\* tag that is in the repository and whose version is no lower than that of
\* any GA or patch tag of major X (resp. of the series X.Y) in it - the
\* releases of all earlier moves among them.  So over the events handled one
\* after the other, the version an alias was last moved to never decreases.
C33_AliasMonotonicity ==
    [][ /\ DOMAIN tags \subseteq DOMAIN tags'
        /\ nevents' = nevents + 1 =>
             \A i \in AliasCalls(last'.calls) :
                 /\ last'.out.tag \in DOMAIN tags'
                 /\ parse_release_tag(last'.out.tag, inputs.tag_prefix) # None
                 /\ MovesUp(last'.calls[i].name,
                            parse_release_tag(last'.out.tag, inputs.tag_prefix),
                            tags', inputs.tag_prefix) ]_vars

\* the major alias was at the commit of a lower release of another series
\* and the invocation moved it to the commit of its own, higher one
C33_Witness ==
    /\ last.exit = "ok"
    /\ \E i \in 1..Len(last.calls) :
           /\ last.calls[i] = Call("update_tag", inputs.tag_prefix \o str(1), last.sha, TRUE)
    /\ parse_release_tag(last.out.tag, inputs.tag_prefix) # None
    /\ \E t \in ReleaseTagsOfMajor(tags, 1, inputs.tag_prefix) :
           /\ tags[t] # last.sha
           /\ TupleLess(parse_release_tag(t, inputs.tag_prefix),
                        parse_release_tag(last.out.tag, inputs.tag_prefix))


\* the name is that of an RC, GA or patch tag
IsReleaseTagName(name, tag_prefix) ==
    is_rc_tag(name, tag_prefix) \/ parse_release_tag(name, tag_prefix) # None

\* C34: release tags are immutable to the tool.  Every update_tag (force
\* move) an invocation calls names a major alias {tag_prefix}X or a minor
\* alias {tag_prefix}X.Y, never an RC, GA or patch tag; a create_tag that
\* succeeds names a tag the repository did not have; and over every event
\* each RC, GA and patch tag of the repository stays, at the commit it was.
C34_ReleaseTagsImmutable ==
    [][ /\ \A i \in 1..Len(last'.calls) :
               /\ last'.calls[i].op = "update_tag" =>
                      /\ IsAliasName(last'.calls[i].name, inputs.tag_prefix)
                      /\ ~IsReleaseTagName(last'.calls[i].name, inputs.tag_prefix)
               /\ (nevents' = nevents + 1 /\ last'.calls[i].op = "create_tag"
                     /\ last'.calls[i].ok) =>
                      last'.calls[i].name \notin DOMAIN tags
        /\ \A t \in DOMAIN tags :
               IsReleaseTagName(t, inputs.tag_prefix) =>
                   t \in DOMAIN tags' /\ tags'[t] = tags[t] ]_vars

\* an invocation force-moved an alias to its commit, and an RC tag and a GA
\* or patch tag of the repository are at other commits
C34_Witness ==
    /\ \E i \in 1..Len(last.calls) : last.calls[i].op = "update_tag" /\ last.calls[i].ok
    /\ \E t \in DOMAIN tags : is_rc_tag(t, inputs.tag_prefix) /\ tags[t] # last.sha
    /\ \E t \in DOMAIN tags :
           parse_release_tag(t, inputs.tag_prefix) # None /\ tags[t] # last.sha


\* the name matches neither the RC pattern nor the GA/patch patterns
IsNoVersionTag(name, tag_prefix) ==
    /\ ~is_rc_tag(name, tag_prefix)
    /\ ReMatch(create_patch_pattern(tag_prefix), name) = None
    /\ parse_release_tag(name, tag_prefix) = None

\* the four searches answer the same on both repositories
SameSearches(before, after, major, minor, tag_prefix) ==
    /\ find_latest_rc(after, major, minor, tag_prefix)
           = find_latest_rc(before, major, minor, tag_prefix)
    /\ find_latest_patch(after, major, minor, tag_prefix)
           = find_latest_patch(before, major, minor, tag_prefix)
    /\ find_highest_major_version(after, major, tag_prefix)
           = find_highest_major_version(before, major, tag_prefix)
    /\ find_highest_minor_version(after, major, minor, tag_prefix)
           = find_highest_minor_version(before, major, minor, tag_prefix)

\* C35: aliases do not feed back into sequencing.  For every valid tag
\* prefix (one that ends in a digit, one of digits and one with a regex
\* special character among them), the alias names {tag_prefix}X and
\* {tag_prefix}X.Y match neither the RC pattern nor the GA/patch pattern of
\* that prefix; and after update_alias_tags has created or moved aliases,
\* find_latest_rc, find_latest_patch, find_highest_major_version and
\* find_highest_minor_version answer for every series what they answered
\* before.
C35_AliasesDoNotFeedBack ==
    /\ \A major \in GrammarNumbers, minor \in GrammarNumbers :
           /\ IsNoVersionTag(inputs.tag_prefix \o str(major), inputs.tag_prefix)
           /\ IsNoVersionTag(BranchName(inputs.tag_prefix, major, minor), inputs.tag_prefix)
    /\ answer.asked = "aliases" =>
           /\ \A i \in 1..Len(answer.result) :
                  IsNoVersionTag(answer.result[i].name, inputs.tag_prefix)
           /\ \A major \in Majors, minor \in Minors :
                  SameSearches(answer.before, tags, major, minor, inputs.tag_prefix)

\* under a prefix that ends in a digit, update_alias_tags created one alias
\* and moved the other
C35_Witness ==
    /\ answer.asked = "aliases"
    /\ inputs.tag_prefix = <<"v", "1">>
    /\ Len(answer.result) = 2
    /\ \E i, j \in 1..2 : /\ answer.result[i].op = "update_tag" /\ answer.result[i].ok
                          /\ answer.result[j].op = "create_tag" /\ answer.result[j].ok
    /\ tags # answer.before


\* the name is a tag of the series by the pattern, its number above all of
\* the numbers given, and no tag of the repository has it
IsFreshIn(name, pattern, ts, numbers, major, minor) ==
    /\ name \notin DOMAIN ts
    /\ ReMatch(pattern, name) # None
    /\ int(ReMatch(pattern, name)[1]) = major
    /\ int(ReMatch(pattern, name)[2]) = minor
    /\ \A n \in numbers : int(ReMatch(pattern, name)[3]) > n

\* C39: freshness of the computed tag.  For every repository of tags (with
\* gaps in the numbers, with a number written twice, with numbers pushed by
\* hand, under every valid prefix), the name get_next_rc_tag returns is the
\* name of no tag of the repository and its RC number is greater than every
\* RC number of the series there; the name get_next_patch_tag returns is
\* the name of no tag and its patch number is greater than every GA or
\* patch number of the series.
C39_ComputedTagIsFresh ==
    /\ answer.asked = "rc" =>
           IsFreshIn(answer.result, create_rc_pattern(inputs.tag_prefix), tags,
                     RcNumbers(tags, answer.major, answer.minor, inputs.tag_prefix),
                     answer.major, answer.minor)
    /\ answer.asked = "patch" =>
           IsFreshIn(answer.result, create_patch_pattern(inputs.tag_prefix), tags,
                     PatchNumbers(tags, answer.major, answer.minor, inputs.tag_prefix),
                     answer.major, answer.minor)

\* the next RC tag was asked for a series whose RC tags are rc1, rc3 and
\* rc03: a gap, and a number listed twice
C39_Witness ==
    /\ answer.asked = "rc" /\ answer.major = 1 /\ answer.minor = 2
    /\ Cardinality(SeriesRcTags(tags, 1, 2, inputs.tag_prefix)) = 3
    /\ RcNumbers(tags, 1, 2, inputs.tag_prefix) = {1, 3}
    /\ answer.result = RcName(inputs.tag_prefix, 1, 2, 4)


\* the invocation of the step created a release tag on a commit that
\* carried an RC, GA or patch tag already
TagsTaggedCommit ==
    \E i \in 1..Len(last'.calls) :
        /\ last'.calls[i].op = "create_tag" /\ last'.calls[i].ok
        /\ IsReleaseTagName(last'.calls[i].name, inputs.tag_prefix)
        /\ \E t \in DOMAIN tags :
               /\ tags[t] = last'.calls[i].sha
               /\ IsReleaseTagName(t, inputs.tag_prefix)

\* C38: no double-tagging of a commit.  Neither a branch-create nor a
\* commit-push (or dispatch) invocation creates a release tag on a commit
\* that carries an RC, GA or patch tag already, of the same or of another
\* series - so the tool puts no second release tag on a commit.
C38_NoDoubleTagging ==
    [][ (nevents' = nevents + 1 /\ last'.event \in {"create", "push", "dispatch"})
        => ~TagsTaggedCommit ]_vars

\* the same of commit-push and dispatch alone, which have the guard
C38_PushNeverDoubleTags ==
    [][ (nevents' = nevents + 1 /\ last'.event \in {"push", "dispatch"})
        => ~TagsTaggedCommit ]_vars


\* the RC, GA and patch tags on the commit
ReleaseTagsOn(ts, sha, tag_prefix) ==
    { t \in DOMAIN ts : ts[t] = sha /\ IsReleaseTagName(t, tag_prefix) }

\* C36: the create event and the push event of a new release branch.  For a
\* new branch of a series without tags, in whichever order or interleaving
\* the run of the create event and the run of the push event of its head
\* commit take their steps, no rc2 of the series is created, and once both
\* runs have ended the commit carries exactly one release tag, the rc1 of
\* the series.
C36_OneTagForNewBranch ==
    /\ RcName(inputs.tag_prefix, 1, 2, 2) \notin DOMAIN tags
    /\ (\A p \in DOMAIN procs : procs[p].pc = "done") =>
           ReleaseTagsOn(tags, RunCommit(PushRun), inputs.tag_prefix)
               = {RcName(inputs.tag_prefix, 1, 2, 1)}


\* both runs have ended, each having created its patch tag
BothReleased ==
    \A p \in Runs :
        /\ procs[p].pc = "done" /\ procs[p].ga
        /\ Len(procs[p].calls) >= 1 /\ procs[p].calls[1].ok

\* the run whose release is the higher one
HigherRun ==
    CHOOSE p \in Runs :
        \A q \in Runs : TupleGE(parse_release_tag(procs[p].name, inputs.tag_prefix),
                                parse_release_tag(procs[q].name, inputs.tag_prefix))

\* C37: concurrent alias updates.  Two invocations that process two
\* different patch releases of one major run concurrently, each reading the
\* listing, asking whether the alias exists, and creating or force-moving
\* it in separate steps: once both have ended, the major alias is at the
\* commit of the higher of the two releases.
C37_ConcurrentAliasUpdates ==
    BothReleased =>
        /\ inputs.tag_prefix \o str(1) \in DOMAIN tags
        /\ tags[inputs.tag_prefix \o str(1)] = procs[HigherRun].sha

=============================================================================
